---------------------------- MODULE Spec2Model ----------------------------
(***************************************************************************)
(* Verification model of the spline generator: the VMF tree parser and its *)
(* lookups (world/map.rs), the brush mesh extractor (Map::from_string),    *)
(* and the spline editor (world/spline/mod.rs, world/mod.rs, gui.rs).      *)
(***************************************************************************)
EXTENDS Integers, Sequences, FiniteSets, TLC

VARIABLES
    map_doc,        \* the content of the map file that vmf_string is the text of (SpecMap)
    vmf_string,     \* the text handed to VMF::from_string, as its lines()
    parser,         \* locals of VMF::from_string: line iterator, current_branch, tree_stack, outcome
    query,          \* the last get_one / get_all call on the parsed tree and what it returned
    map_load,       \* the last Map::from_string call: outcome, vertices, indices
    splines,                \* World::splines, each a Spline (data, selection, dirty flag, mesh)
    selected_spline,        \* World::selected_spline, counted from 0
    new_spline_requested,   \* World::new_spline_requested
    menu_selection,         \* Gui::menu_selection
    load_state_future,      \* Gui::load_state_future: "none" or "pending"
    phase,                  \* place in the event loop: between events, or inside RedrawRequested
    ops,                    \* number of editing inputs given so far
    panic,                  \* the panic that ended the program, NoPanic while it runs
    save_state_future,      \* Gui::save_state_future: NoFuture, or the text it will write
    state_file,             \* the file the last finished "Save splines" wrote, NoFile before
    export_spline_future,   \* Gui::export_spline_future: NoFuture, or the archive it will write
    snap_value              \* Gui::snap_value

map_vars == <<map_doc, vmf_string, parser, query, map_load>>
editor_vars == <<splines, selected_spline, new_spline_requested, menu_selection,
                 load_state_future, phase, ops, panic>>
gui_vars == <<save_state_future, state_file, export_spline_future, snap_value>>
vars == <<map_vars, editor_vars, gui_vars>>

NoPanic == [msg |-> "", spline |-> 0]
NoFuture == [pending |-> FALSE]
NoFile == [written |-> FALSE]

\* World::new and Gui::new: no curves, the Controls menu, no dialog open
EditorStart ==
    /\ splines = <<>>
    /\ selected_spline = 0
    /\ new_spline_requested = FALSE
    /\ menu_selection = "Controls"
    /\ load_state_future = "none"
    /\ phase = "idle"
    /\ ops = 0
    /\ panic = NoPanic
    /\ save_state_future = NoFuture
    /\ state_file = NoFile
    /\ export_spline_future = NoFuture
    /\ snap_value = 64

(***************************************************************************)
(* Bounds                                                                  *)
(***************************************************************************)
MaxLines == 6

(***************************************************************************)
(* Text: lines, str::trim and the leaf regex                               *)
(***************************************************************************)
Quote(s) == "\"" \o s \o "\""

\* a line of the form "name" "value"
LeafLine(name, value) == Quote(name) \o " " \o Quote(value)

\* the six tool materials is_side_visible filters out, and the two sky materials
ToolMaterials ==
    {"TOOLS/TOOLSNODRAW", "TOOLS/TOOLSPLAYERCLIP", "TOOLS/TOOLSCLIP",
     "TOOLS/TOOLSTRIGGER", "TOOLS/TOOLSHINT", "TOOLS/TOOLSSKIP"}
SkyMaterials == {"TOOLS/TOOLSSKYBOX", "TOOLS/TOOLSSKYBOX2D"}

\* material strings as written in a map file (one of them in lower case)
MaterialTexts ==
    {"WALL01", "TOOLS/TOOLSSKYBOX", "tools/toolsnodraw", "TOOLS/TOOLSPLAYERCLIP",
     "TOOLS/TOOLSCLIP", "TOOLS/TOOLSTRIGGER", "TOOLS/TOOLSHINT", "TOOLS/TOOLSSKIP"}

\* str::to_uppercase on the material strings of the model
to_uppercase(s) == IF s = "tools/toolsnodraw" THEN "TOOLS/TOOLSNODRAW" ELSE s

\* coordinates a vertex of the model can have, and the text of a "v" leaf
VertexText(x, y, z) == ToString(x) \o " " \o ToString(y) \o " " \o ToString(z)
VertexTable ==
    { [text |-> VertexText(x, 0, z), vertex |-> <<x, 0, z>>] : x \in 0..3, z \in 0..9 }
\* "v" values that to_vertex rejects: two entries only, and an entry that is no number
BadVertexTexts == {"0 0", "a 0 0"}

ClassNames == {"func_detail", "func_door"}

\* every name/value pair whose line the model can contain, with the captures
\* the regex ^"(.*)" "(.*)"$ takes from that line
LeafTable ==
    { [line |-> LeafLine(n, v), name |-> n, value |-> v] : n \in {"a", "b"}, v \in {"x", "y"} }
    \cup { [line |-> LeafLine("material", m), name |-> "material", value |-> m] : m \in MaterialTexts }
    \cup { [line |-> LeafLine("classname", c), name |-> "classname", value |-> c] : c \in ClassNames }
    \cup { [line |-> LeafLine("v", t), name |-> "v", value |-> t] :
             t \in { e.text : e \in VertexTable } \cup BadVertexTexts }

\* branch-opening key lines (no quotes, so the leaf regex does not match them)
KeyLines == {"a", "{", "world", "entity", "solid", "side", "vertices_plus", "material"}

\* all trimmed line texts of the model
TrimmedLines == {"}", ""} \cup KeyLines \cup { e.line : e \in LeafTable }

\* str::trim: the lines of the model carry at most one leading tab
Trim(line) ==
    IF line \in TrimmedLines THEN line
    ELSE CHOOSE t \in TrimmedLines : line = "\t" \o t

\* leaf_regex.captures(line)
IsLeaf(line) == \E e \in LeafTable : e.line = line
LeafCaptures(line) == CHOOSE e \in LeafTable : e.line = line

(***************************************************************************)
(* VMFEntry, VMFBranch                                                     *)
(***************************************************************************)
EmptyBranch == [k \in {} |-> <<>>]

Leaf(value) == [kind |-> "Leaf", value |-> value]
Branch(branch) == [kind |-> "Branch", branch |-> branch]

Ok(v) == [ok |-> TRUE, value |-> v]
Err(msg) == [ok |-> FALSE, err |-> msg]

PushEntry_Overwrite(b, key, e) ==
    [k \in (DOMAIN b) \cup {key} |-> IF k = key THEN <<e>> ELSE b[k]]

\* the `if let Some(entries) = b.get_mut(&key) { entries.push(e) } else { b.insert(key, vec![e]) }`
\* of cases 1 and 2
PushEntry(b, key, e) ==
    IF key \in DOMAIN b
    THEN [b EXCEPT ![key] = Append(@, e)]
    ELSE [k \in (DOMAIN b) \cup {key} |-> IF k = key THEN <<e>> ELSE b[k]]

get_one_First(entry, key) ==
    IF entry.kind = "Branch"
    THEN IF key \notin DOMAIN entry.branch
         THEN Err("VMF branch doesn't contain specified key")
         ELSE Ok(entry.branch[key][1])
    ELSE Err("can't call get_one on a VMF leaf")

get_one(entry, key) ==
    IF entry.kind = "Branch"
    THEN IF key \notin DOMAIN entry.branch
         THEN Err("VMF branch doesn't contain specified key")
         ELSE IF Len(entry.branch[key]) # 1
              THEN Err("VMF branch contains more than one value")
              ELSE Ok(entry.branch[key][1])
    ELSE Err("can't call get_one on a VMF leaf")

get_all_AbsentIsError(entry, key) ==
    IF entry.kind = "Branch"
    THEN IF key \in DOMAIN entry.branch
         THEN Ok(entry.branch[key])
         ELSE Err("VMF branch doesn't contain specified key")
    ELSE Err("can't call get_all on a VMF leaf")

get_all(entry, key) ==
    IF entry.kind = "Branch"
    THEN IF key \in DOMAIN entry.branch
         THEN Ok(entry.branch[key])
         ELSE Ok(<<>>)
    ELSE Err("can't call get_all on a VMF leaf")

to_str(entry) ==
    IF entry.kind = "Leaf"
    THEN Ok(entry.value)
    ELSE Err("Can't convert VMF branch into string")

(***************************************************************************)
(* VMF::from_string, one iteration of its `while let` loop per step        *)
(***************************************************************************)
ParserStart == [pos |-> 1, current_branch |-> EmptyBranch, tree_stack |-> <<>>, status |-> "running"]

\* Case 1: the line closes the current branch
CloseBranch_KeepGoing(p) ==
    IF Len(p.tree_stack) > 0
    THEN LET new_branch == p.tree_stack[Len(p.tree_stack)]
             parent == new_branch[1]
             child_name == new_branch[2]
         IN [p EXCEPT !.tree_stack = SubSeq(@, 1, Len(@) - 1),
                      !.current_branch = PushEntry(parent, child_name, Branch(p.current_branch)),
                      !.pos = @ + 1]
    ELSE [p EXCEPT !.pos = @ + 1]

CloseBranch(p) ==
    IF Len(p.tree_stack) > 0
    THEN LET new_branch == p.tree_stack[Len(p.tree_stack)]
             parent == new_branch[1]
             child_name == new_branch[2]
         IN [p EXCEPT !.tree_stack = SubSeq(@, 1, Len(@) - 1),
                      !.current_branch = PushEntry(parent, child_name, Branch(p.current_branch)),
                      !.pos = @ + 1]
    ELSE [p EXCEPT !.status = "invalid VMF structure"]

\* Case 2: the line is a leaf entry
AddLeaf(p, line) ==
    LET captures == LeafCaptures(line) IN
    [p EXCEPT !.current_branch = PushEntry(@, captures.name, Leaf(captures.value)),
              !.pos = @ + 1]

\* Case 3: the line names a new branch; the opening brace is taken from the next line
OpenBranch_NoBraceCheck(lines, p, line) ==
    [p EXCEPT !.tree_stack = Append(@, <<p.current_branch, line>>),
              !.current_branch = EmptyBranch,
              !.pos = @ + 2]

OpenBranch(lines, p, line) ==
    LET next_line == IF p.pos + 1 <= Len(lines) THEN Trim(lines[p.pos + 1]) ELSE "" IN
    IF next_line # "{"
    THEN [p EXCEPT !.status = "malformed VMF syntax"]
    ELSE [p EXCEPT !.tree_stack = Append(@, <<p.current_branch, line>>),
                   !.current_branch = EmptyBranch,
                   !.pos = @ + 2]

\* the check after the loop
EndOfInput(p) ==
    IF Len(p.tree_stack) # 0
    THEN [p EXCEPT !.status = "invalid VMF structure"]
    ELSE [p EXCEPT !.status = "ok"]

\* one iteration of the loop over vmf_lines; when the iterator is exhausted,
\* the check after the loop
ParseStep(lines, p) ==
    IF p.pos > Len(lines)
    THEN EndOfInput(p)
    ELSE LET line == Trim(lines[p.pos]) IN
         IF line = "}" THEN CloseBranch(p)
         ELSE IF IsLeaf(line) THEN AddLeaf(p, line)
         ELSE IF line # "" THEN OpenBranch(lines, p, line)
         ELSE [p EXCEPT !.pos = @ + 1]

RECURSIVE RunParser(_, _)
RunParser(lines, p) ==
    IF p.status # "running" THEN p ELSE RunParser(lines, ParseStep(lines, p))

\* the Result of VMF::from_string: the root on success, the error otherwise
VMF_from_string(lines) ==
    LET p == RunParser(lines, ParserStart) IN
    IF p.status = "ok" THEN Ok(Branch(p.current_branch)) ELSE Err(p.status)

\* the lines a parsed text is drawn from
InputLines == {"}", "\t{", "a", "\t" \o LeafLine("a", "x"), LeafLine("b", "y"), "\t"}

RECURSIVE SeqsUpTo(_, _)
SeqsUpTo(S, n) ==
    IF n = 0 THEN {<<>>}
    ELSE LET shorter == SeqsUpTo(S, n - 1) IN
         shorter \cup { Append(s, x) : s \in { t \in shorter : Len(t) = n - 1 }, x \in S }

NoQuery == [fn |-> "none"]
NoLoad == [status |-> "none"]

NoDoc == [sides |-> <<>>, entity |-> "none"]

InitParse ==
    /\ map_doc = NoDoc
    /\ vmf_string \in SeqsUpTo(InputLines, MaxLines)
    /\ parser = ParserStart
    /\ query = NoQuery
    /\ map_load = NoLoad
    /\ EditorStart

ParseLine ==
    /\ parser.status = "running"
    /\ parser' = ParseStep(vmf_string, parser)
    /\ UNCHANGED <<map_doc, vmf_string, query, map_load, editor_vars, gui_vars>>

\* the tree nodes a caller can hold after a successful parse
RECURSIVE EntriesOf(_)
EntriesOf(entry) ==
    {entry} \cup
    IF entry.kind = "Branch"
    THEN UNION { UNION { EntriesOf(entry.branch[k][i]) : i \in 1..Len(entry.branch[k]) } : k \in DOMAIN entry.branch }
    ELSE {}

QueryKeys == {"a", "b", "{"}

CallGetOne ==
    /\ parser.status = "ok"
    /\ \E e \in EntriesOf(Branch(parser.current_branch)), k \in QueryKeys :
           query' = [fn |-> "get_one", entry |-> e, key |-> k, result |-> get_one(e, k)]
    /\ UNCHANGED <<map_doc, vmf_string, parser, map_load, editor_vars, gui_vars>>

CallGetAll ==
    /\ parser.status = "ok"
    /\ \E e \in EntriesOf(Branch(parser.current_branch)), k \in QueryKeys :
           query' = [fn |-> "get_all", entry |-> e, key |-> k, result |-> get_all(e, k)]
    /\ UNCHANGED <<map_doc, vmf_string, parser, map_load, editor_vars, gui_vars>>

NextParse == ParseLine \/ CallGetOne \/ CallGetAll

SpecParse == InitParse /\ [][NextParse]_vars


(***************************************************************************)
(* Claims about the parser, checked under SpecParse                        *)
(***************************************************************************)
AtLine == parser.pos <= Len(vmf_string)
CurLine == Trim(vmf_string[parser.pos])

\* the line under the iterator is a case-3 line: not "}", not a leaf, not blank
AtKeyLine == AtLine /\ CurLine # "}" /\ ~IsLeaf(CurLine) /\ CurLine # ""

ExtraClose == AtLine /\ CurLine = "}" /\ Len(parser.tree_stack) = 0
Unclosed == ~AtLine /\ Len(parser.tree_stack) # 0

\* C1: a closing brace met with an empty ancestor stack, and a non-empty
\* stack at the end of the input, both end the parse with the structural
\* error; the error is final, so no tree is returned for such input.
C1_UnbalancedFails ==
    [][ /\ (parser.status = "running" /\ (ExtraClose \/ Unclosed))
              => parser'.status = "invalid VMF structure"
        /\ (parser.status = "invalid VMF structure")
              => (parser'.status = "invalid VMF structure" /\ ~VMF_from_string(vmf_string).ok)
      ]_vars

C1_Witness ==
    /\ parser.status = "invalid VMF structure"
    /\ ExtraClose
    /\ parser.pos > 1
    /\ DOMAIN parser.current_branch # {}

\* What a well-formed text denotes, read off the text block by block: the
\* items of a block in order, then, per key, the items written under it.
GroupItems(items) ==
    [k \in { items[j][1] : j \in 1..Len(items) } |->
        LET under == SelectSeq(items, LAMBDA it : it[1] = k) IN
        [j \in 1..Len(under) |-> under[j][2]]]

\* the items from line i up to the end of the block at nesting depth d
RECURSIVE ReadBlock(_, _, _, _)
ReadBlock(lines, i, d, items) ==
    IF i > Len(lines)
    THEN [ok |-> d = 0, items |-> items, next |-> i]
    ELSE LET line == Trim(lines[i]) IN
         IF line = "}"
         THEN [ok |-> d > 0, items |-> items, next |-> i + 1]
         ELSE IF line = ""
         THEN ReadBlock(lines, i + 1, d, items)
         ELSE IF IsLeaf(line)
         THEN ReadBlock(lines, i + 1, d,
                        Append(items, <<LeafCaptures(line).name, Leaf(LeafCaptures(line).value)>>))
         ELSE IF i + 1 > Len(lines) \/ Trim(lines[i + 1]) # "{"
         THEN [ok |-> FALSE, items |-> items, next |-> i]
         ELSE LET inner == ReadBlock(lines, i + 2, d + 1, <<>>) IN
              IF ~inner.ok
              THEN [ok |-> FALSE, items |-> items, next |-> i]
              ELSE ReadBlock(lines, inner.next, d,
                             Append(items, <<line, Branch(GroupItems(inner.items))>>))

Written(lines) ==
    LET top == ReadBlock(lines, 1, 0, <<>>) IN
    [ok |-> top.ok /\ top.next > Len(lines), tree |-> GroupItems(top.items)]

\* C2: for balanced input the finished parse holds, under every key of every
\* branch, exactly the leaves and child branches written under that key, in
\* the order of the text; a repeated key appends.
C2_KeysKeepAllInOrder ==
    (parser.status # "running" /\ Written(vmf_string).ok)
        => (parser.status = "ok" /\ parser.current_branch = Written(vmf_string).tree)

\* a finished parse of a text that repeats a key, mixing a leaf and a branch under it
C2_Witness ==
    /\ parser.status = "ok"
    /\ Written(vmf_string).ok
    /\ \E k \in DOMAIN parser.current_branch :
          /\ Len(parser.current_branch[k]) >= 2
          /\ \E i, j \in 1..Len(parser.current_branch[k]) :
                /\ parser.current_branch[k][i].kind = "Leaf"
                /\ parser.current_branch[k][j].kind = "Branch"
                /\ DOMAIN parser.current_branch[k][j].branch # {}

NextLineIsBrace ==
    parser.pos + 1 <= Len(vmf_string) /\ Trim(vmf_string[parser.pos + 1]) = "{"

\* C3: at a key line the parser opens a branch only when the following line
\* (trimmed) is the opening brace; otherwise, also at the end of the input,
\* it stops with the malformed-syntax error and the ancestor stack is as before.
C3_KeyLineNeedsBrace ==
    [][ (parser.status = "running" /\ AtKeyLine) =>
            IF NextLineIsBrace
            THEN /\ parser'.status = "running"
                 /\ parser'.tree_stack = Append(parser.tree_stack, <<parser.current_branch, CurLine>>)
                 /\ parser'.current_branch = EmptyBranch
            ELSE /\ parser'.status = "malformed VMF syntax"
                 /\ parser'.tree_stack = parser.tree_stack
      ]_vars

\* the input ends right after a key line, inside an open branch
C3_Witness ==
    /\ parser.status = "malformed VMF syntax"
    /\ AtKeyLine
    /\ parser.pos = Len(vmf_string)
    /\ Len(parser.tree_stack) > 0

\* C4: get_all on a Branch never fails and gives the empty list for an absent
\* key; it fails exactly on a Leaf.
C4_GetAllAbsentIsEmpty ==
    query.fn = "get_all" =>
        /\ (query.result.ok <=> query.entry.kind = "Branch")
        /\ (query.entry.kind = "Branch" /\ query.key \notin DOMAIN query.entry.branch)
              => query.result.value = <<>>
        /\ (query.entry.kind = "Branch" /\ query.key \in DOMAIN query.entry.branch)
              => query.result.value = query.entry.branch[query.key]

C4_Witness ==
    /\ query.fn = "get_all"
    /\ query.entry.kind = "Branch"
    /\ query.key \notin DOMAIN query.entry.branch
    /\ DOMAIN query.entry.branch # {}
    /\ query.result = Ok(<<>>)

\* C5: get_one succeeds exactly on a Branch that has the key with exactly one
\* value, and returns that value; absent key, several values and Leaf fail.
C5_GetOneExactlyOne ==
    query.fn = "get_one" =>
        LET single == /\ query.entry.kind = "Branch"
                      /\ query.key \in DOMAIN query.entry.branch
                      /\ Len(query.entry.branch[query.key]) = 1
        IN /\ (query.result.ok <=> single)
           /\ single => query.result.value = query.entry.branch[query.key][1]

\* the key is present with two values and the call fails
C5_Witness ==
    /\ query.fn = "get_one"
    /\ query.entry.kind = "Branch"
    /\ query.key \in DOMAIN query.entry.branch
    /\ Len(query.entry.branch[query.key]) > 1
    /\ ~query.result.ok


(***************************************************************************)
(* Map::from_string: the brush mesh extractor                              *)
(***************************************************************************)
MaxSides == 2

\* VMFEntry::to_vertex: split(" ") must give 3 entries and each must parse
to_vertex(entry) ==
    IF entry.kind = "Leaf"
    THEN IF \E e \in VertexTable : e.text = entry.value
         THEN Ok((CHOOSE e \in VertexTable : e.text = entry.value).vertex)
         ELSE IF entry.value = "0 0"
              THEN Err("VMF vertex doesn't contain 3 entries")
              ELSE Err("invalid float literal")
    ELSE Err("Can't convert VMF branch into vertex")

is_side_visible_KeepUnreadable(side) ==
    LET material == get_one(side, "material") IN
    IF ~material.ok THEN TRUE
    ELSE IF ~to_str(material.value).ok THEN TRUE
    ELSE to_uppercase(to_str(material.value).value) \notin ToolMaterials

is_side_visible_NoSkip(side) ==
    LET material == get_one(side, "material") IN
    IF ~material.ok THEN FALSE
    ELSE IF ~to_str(material.value).ok THEN FALSE
    ELSE LET m == to_uppercase(to_str(material.value).value) IN
         /\ m # "TOOLS/TOOLSNODRAW"
         /\ m # "TOOLS/TOOLSPLAYERCLIP"
         /\ m # "TOOLS/TOOLSCLIP"
         /\ m # "TOOLS/TOOLSTRIGGER"
         /\ m # "TOOLS/TOOLSHINT"

is_side_visible(side) ==
    LET material == get_one(side, "material") IN
    IF ~material.ok THEN FALSE
    ELSE IF ~to_str(material.value).ok THEN FALSE
    ELSE LET m == to_uppercase(to_str(material.value).value) IN
         /\ m # "TOOLS/TOOLSNODRAW"
         /\ m # "TOOLS/TOOLSPLAYERCLIP"
         /\ m # "TOOLS/TOOLSCLIP"
         /\ m # "TOOLS/TOOLSTRIGGER"
         /\ m # "TOOLS/TOOLSHINT"
         /\ m # "TOOLS/TOOLSSKIP"

\* the filter closure with a missing or repeated classname let through
IsFuncDetail_UnreadableCounts(e) ==
    LET classname == get_one(e, "classname") IN
    IF ~classname.ok THEN TRUE
    ELSE (IF to_str(classname.value).ok THEN to_str(classname.value).value ELSE "") = "func_detail"

\* the filter closure on the entities: classname is exactly func_detail
IsFuncDetail(e) ==
    LET classname == get_one(e, "classname") IN
    IF ~classname.ok THEN FALSE
    ELSE (IF to_str(classname.value).ok THEN to_str(classname.value).value ELSE "") = "func_detail"

RECURSIVE Flatten(_)
Flatten(lists) == IF lists = <<>> THEN <<>> ELSE Head(lists) \o Flatten(Tail(lists))

\* the sides of one solid with the visibility filter left out
SolidSides_NoFilter(solid) == get_all(solid, "side")

\* the visible sides of one solid, or the error of solid.get_all("side")
SolidSides(solid) ==
    LET all == get_all(solid, "side") IN
    IF ~all.ok THEN all ELSE Ok(SelectSeq(all.value, is_side_visible))

\* collect::<Result<Vec<_>>>(): the first error, or all the values
RECURSIVE CollectVertices(_, _, _)
CollectVertices(list, i, acc) ==
    IF i > Len(list) THEN Ok(acc)
    ELSE LET r == to_vertex(list[i]) IN
         IF ~r.ok THEN r ELSE CollectVertices(list, i + 1, Append(acc, r.value))

RECURSIVE CollectSolids(_, _, _)
CollectSolids(entities, i, acc) ==
    IF i > Len(entities) THEN Ok(acc)
    ELSE LET r == get_all(entities[i], "solid") IN
         IF ~r.ok THEN r ELSE CollectSolids(entities, i + 1, Append(acc, r.value))

\* the `for solid in ..` loops: the visible sides of each solid, or the first error
RECURSIVE CollectSides(_, _, _)
CollectSides(solids, i, acc) ==
    IF i > Len(solids) THEN Ok(acc)
    ELSE LET r == SolidSides(solids[i]) IN
         IF ~r.ok THEN r ELSE CollectSides(solids, i + 1, Append(acc, r.value))

\* the triangle fan of a face of n vertices that starts at initial_index
FanIndices(initial_index, n) ==
    Flatten([i \in 1..(n - 2) |-> <<initial_index, initial_index + i + 1, initial_index + i + 0>>])

\* one iteration of `for side in sides`: appends the face to the mesh, or fails
AddSide_NoMinimum(mesh, side) ==
    LET vp == get_one(side, "vertices_plus") IN
    IF ~vp.ok THEN vp
    ELSE LET vs == get_all(vp.value, "v") IN
         IF ~vs.ok THEN vs
         ELSE LET side_vertices == CollectVertices(vs.value, 1, <<>>) IN
              IF ~side_vertices.ok THEN side_vertices
              ELSE IF Len(side_vertices.value) < 3
              THEN Ok(mesh)
              ELSE LET material == get_one(side, "material")
                       initial_index == Len(mesh.vertices)
                       n == Len(side_vertices.value)
                       sky == to_uppercase(to_str(material.value).value) \in SkyMaterials
                   IN Ok([vertices |-> mesh.vertices \o
                                 [j \in 1..n |-> [position |-> side_vertices.value[j], sky |-> sky]],
                          indices |-> mesh.indices \o FanIndices(initial_index, n)])

AddSide(mesh, side) ==
    LET vp == get_one(side, "vertices_plus") IN
    IF ~vp.ok THEN vp
    ELSE LET vs == get_all(vp.value, "v") IN
         IF ~vs.ok THEN vs
         ELSE LET side_vertices == CollectVertices(vs.value, 1, <<>>) IN
              IF ~side_vertices.ok THEN side_vertices
              ELSE IF Len(side_vertices.value) < 3
              THEN Err("VMF contains face with less than 3 vertices")
              ELSE LET material == get_one(side, "material") IN
                   IF ~material.ok THEN material
                   ELSE IF ~to_str(material.value).ok THEN to_str(material.value)
                   ELSE LET initial_index == Len(mesh.vertices)
                            n == Len(side_vertices.value)
                            sky == to_uppercase(to_str(material.value).value) \in SkyMaterials
                        IN Ok([vertices |-> mesh.vertices \o
                                 [j \in 1..n |-> [position |-> side_vertices.value[j], sky |-> sky]],
                               indices |-> mesh.indices \o FanIndices(initial_index, n)])

RECURSIVE AddSides(_, _, _)
AddSides(mesh, sides, i) ==
    IF i > Len(sides) THEN Ok(mesh)
    ELSE LET r == AddSide(mesh, sides[i]) IN
         IF ~r.ok THEN r ELSE AddSides(r.value, sides, i + 1)

\* the sides Map::from_string selects from a parsed tree, in order, or the error
SelectedSides(root) ==
    LET world == get_one(root, "world") IN
    IF ~world.ok THEN world
    ELSE LET world_solids == get_all(world.value, "solid") IN
         IF ~world_solids.ok THEN world_solids
         ELSE LET entities == get_all(root, "entity") IN
              IF ~entities.ok THEN entities
              ELSE LET per_entity == CollectSolids(SelectSeq(entities.value, IsFuncDetail), 1, <<>>) IN
                   IF ~per_entity.ok THEN per_entity
                   ELSE LET entity_solids == Flatten(per_entity.value)
                            world_sides == CollectSides(world_solids.value, 1, <<>>)
                        IN IF ~world_sides.ok THEN world_sides
                           ELSE LET entity_sides == CollectSides(entity_solids, 1, <<>>) IN
                                IF ~entity_sides.ok THEN entity_sides
                                ELSE Ok(Flatten(world_sides.value) \o Flatten(entity_sides.value))

Map_from_string(lines) ==
    LET vmf == VMF_from_string(lines) IN
    IF ~vmf.ok THEN [status |-> "error", err |-> vmf.err]
    ELSE LET sides == SelectedSides(vmf.value) IN
         IF ~sides.ok THEN [status |-> "error", err |-> sides.err]
         ELSE LET mesh == AddSides([vertices |-> <<>>, indices |-> <<>>], sides.value, 1) IN
              IF ~mesh.ok THEN [status |-> "error", err |-> mesh.err]
              ELSE [status |-> "ok", vertices |-> mesh.value.vertices,
                    indices |-> mesh.value.indices, index_count |-> Len(mesh.value.indices)]

(***************************************************************************)
(* Map files of the model and their text                                   *)
(***************************************************************************)
\* a side as written in the file: how its material field is written (a string
\* leaf, missing, written twice, or a branch), and its vertices_plus block
\* (n "v" leaves, the block missing, or one "v" that is no number)
SideKinds ==
    { [material |-> m, mform |-> "leaf", n |-> 4, vform |-> "ok"] : m \in MaterialTexts }
    \cup { [material |-> "WALL01", mform |-> f, n |-> 4, vform |-> "ok"] :
              f \in {"missing", "repeated", "branch"} }
    \cup { [material |-> m, mform |-> f, n |-> c[1], vform |-> c[2]] :
              m \in {"WALL01", "tools/toolsnodraw"}, f \in {"leaf"},
              c \in {<<3, "ok">>, <<2, "ok">>, <<3, "bad">>, <<0, "absent">>} }
    \cup { [material |-> "WALL01", mform |-> "missing", n |-> c[1], vform |-> c[2]] :
              c \in {<<2, "ok">>, <<3, "bad">>, <<0, "absent">>} }

EntityKinds == {"none", "func_detail", "func_detail_nodraw", "func_door", "noclass", "twoclass"}

MaterialLines(side) ==
    CASE side.mform = "leaf" -> <<"\t" \o LeafLine("material", side.material)>>
      [] side.mform = "missing" -> <<>>
      [] side.mform = "repeated" -> <<LeafLine("material", side.material), LeafLine("material", side.material)>>
      [] side.mform = "branch" -> <<"material", "{", "}">>

\* vertex j of the face with number z is (j-1, 0, z)
VertexLeafText(side, j, z) ==
    IF side.vform = "bad" /\ j = 2 THEN "a 0 0" ELSE VertexText(j - 1, 0, z)

VertexLines(side, z) ==
    IF side.vform = "absent" THEN <<>>
    ELSE <<"vertices_plus", "{">>
         \o [j \in 1..side.n |-> "\t" \o LeafLine("v", VertexLeafText(side, j, z))]
         \o <<"}">>

SideLines(side, z) ==
    <<"side", "{">> \o MaterialLines(side) \o VertexLines(side, z) \o <<"}">>

SolidLines(sides, z0) ==
    <<"solid", "\t{">> \o Flatten([i \in 1..Len(sides) |-> SideLines(sides[i], z0 + i)]) \o <<"}">>

\* the world branch: the first side in a solid of its own, the others in a second solid
WorldLines(sides) ==
    <<"world", "{">>
    \o (IF Len(sides) >= 1 THEN SolidLines(<<sides[1]>>, 0) ELSE <<>>)
    \o (IF Len(sides) >= 2 THEN SolidLines(Tail(sides), 1) ELSE <<>>)
    \o <<"}">>

EntitySide(kind) ==
    [material |-> IF kind = "func_detail_nodraw" THEN "TOOLS/TOOLSCLIP" ELSE "WALL01",
     mform |-> "leaf", n |-> 3, vform |-> "ok"]

\* one entity with one solid of one side (face number 0), after the world
EntityLines(kind) ==
    IF kind = "none" THEN <<>>
    ELSE <<"entity", "{">>
         \o (CASE kind \in {"func_detail", "func_detail_nodraw"} -> <<LeafLine("classname", "func_detail")>>
               [] kind = "func_door" -> <<LeafLine("classname", "func_door")>>
               [] kind = "noclass" -> <<>>
               [] kind = "twoclass" -> <<LeafLine("classname", "func_detail"), LeafLine("classname", "func_detail")>>)
         \o <<"solid", "{">> \o SideLines(EntitySide(kind), 0) \o <<"}", "}">>

DocLines(doc) == WorldLines(doc.sides) \o <<"">> \o EntityLines(doc.entity)

InitMap ==
    /\ map_doc \in { [sides |-> ss, entity |-> e] : ss \in SeqsUpTo(SideKinds, MaxSides), e \in EntityKinds }
    /\ vmf_string = DocLines(map_doc)
    /\ parser = ParserStart
    /\ query = NoQuery
    /\ map_load = NoLoad
    /\ EditorStart

\* Gui::update, vmf_future ready: world.map = Map::from_string(&vmf, ..)
LoadMap ==
    /\ map_load = NoLoad
    /\ map_load' = Map_from_string(vmf_string)
    /\ UNCHANGED <<map_doc, vmf_string, parser, query, editor_vars, gui_vars>>

NextMap == LoadMap

SpecMap == InitMap /\ [][NextMap]_vars


(***************************************************************************)
(* Claims about the extractor, checked under SpecMap                       *)
(***************************************************************************)
\* the faces of the file that lie in a source Map::from_string reads, each
\* with its face number: world sides 1.., then the side of a func_detail entity
DocFaces ==
    [i \in 1..Len(map_doc.sides) |-> [side |-> map_doc.sides[i], z |-> i]]
    \o (IF map_doc.entity \in {"func_detail", "func_detail_nodraw"}
        THEN <<[side |-> EntitySide(map_doc.entity), z |-> 0]>> ELSE <<>>)
DocFaceSet == { DocFaces[i] : i \in 1..Len(DocFaces) }

HasToolMaterial(side) == side.mform = "leaf" /\ to_uppercase(side.material) \in ToolMaterials
HasUnreadableMaterial(side) == side.mform \in {"missing", "repeated", "branch"}
Retained(side) == ~HasToolMaterial(side) /\ ~HasUnreadableMaterial(side)
VertexCount(side) == IF side.vform = "absent" THEN 0 ELSE side.n

\* the output vertices and indices that belong to face number z
VerticesOf(z) == { j \in 1..Len(map_load.vertices) : map_load.vertices[j].position[3] = z }
IndicesOf(z) == { i \in 1..Len(map_load.indices) : (map_load.indices[i] + 1) \in VerticesOf(z) }

\* C6: a successful load has no vertex and no index of a tool-material face,
\* and exactly n vertices and 3*(n-2) indices of every retained face of n >= 3
\* vertices.
C6_ToolFacesOutFansIn ==
    map_load.status = "ok" =>
        \A f \in DocFaceSet :
            /\ HasToolMaterial(f.side) => (VerticesOf(f.z) = {} /\ IndicesOf(f.z) = {})
            /\ (Retained(f.side) /\ VertexCount(f.side) >= 3) =>
                  /\ Cardinality(VerticesOf(f.z)) = VertexCount(f.side)
                  /\ Cardinality(IndicesOf(f.z)) = 3 * (VertexCount(f.side) - 2)

\* the scenario of the specification: a 4-vertex TOOLS/TOOLSNODRAW face and a
\* 4-vertex WALL01 face give one quad, 6 indices
C6_Witness ==
    /\ map_doc.sides = << [material |-> "tools/toolsnodraw", mform |-> "leaf", n |-> 4, vform |-> "ok"],
                          [material |-> "WALL01", mform |-> "leaf", n |-> 4, vform |-> "ok"] >>
    /\ map_doc.entity = "none"
    /\ map_load.status = "ok"
    /\ Len(map_load.vertices) = 4
    /\ map_load.indices = <<0, 2, 1, 0, 3, 2>>
    /\ map_load.index_count = 6

\* C7: when a retained face has fewer than 3 vertices the load fails as a whole.
C7_ShortFaceFailsLoad ==
    (map_load # NoLoad /\ \E f \in DocFaceSet : Retained(f.side) /\ VertexCount(f.side) < 3)
        => map_load.status = "error"

\* a good face followed by a retained face of two vertices
C7_Witness ==
    /\ Len(map_doc.sides) = 2
    /\ Retained(map_doc.sides[1]) /\ map_doc.sides[1].vform = "ok" /\ map_doc.sides[1].n = 4
    /\ Retained(map_doc.sides[2]) /\ map_doc.sides[2].vform = "ok" /\ map_doc.sides[2].n = 2
    /\ map_load.status = "error"
    /\ map_load.err = "VMF contains face with less than 3 vertices"

\* C8: faces whose material is missing, repeated or not a string leaf are
\* dropped without failing the load: when every retained face is well formed
\* the load succeeds, gives the unreadable faces nothing and every retained
\* face its vertices.
C8_UnreadableMaterialDropped ==
    (map_load # NoLoad /\ \A f \in DocFaceSet :
                              Retained(f.side) => (f.side.vform = "ok" /\ f.side.n >= 3))
        => /\ map_load.status = "ok"
           /\ \A f \in DocFaceSet :
                 /\ HasUnreadableMaterial(f.side) => VerticesOf(f.z) = {}
                 /\ Retained(f.side) => Cardinality(VerticesOf(f.z)) = f.side.n

C8_Witness ==
    /\ Len(map_doc.sides) = 2
    /\ HasUnreadableMaterial(map_doc.sides[1])
    /\ Retained(map_doc.sides[2])
    /\ map_load.status = "ok"
    /\ Len(map_load.vertices) = map_doc.sides[2].n
    /\ Len(map_load.indices) = 3 * (map_doc.sides[2].n - 2)

(***************************************************************************)
(* The spline editor: Spline (world/spline/mod.rs), World (world/mod.rs),  *)
(* the key events and the frame (lib.rs), the property panel (gui.rs)      *)
(***************************************************************************)
MaxPoints == 2
MaxSplines == 2
MaxOps == 2

\* values the user can give to the fields of a control point and of a curve
\* an f32 NaN: a value apart from every finite one the model uses
NaN == 0 - 8388608

Coords == {0, 40}
Angles == {0, 90}
Magnitudes == {512, 256}
WHITE == <<255, 255, 255, 255>>
Colors == {WHITE, <<128, 0, 0, 128>>}
Radii == {4, 8}
SideCounts == {1, 2, 3, 4}
SubdivisionCounts == {1, 16}
Names == {"", "path"}

\* camera poses at the time of a Space press (position already rounded)
Cameras == { [position |-> <<0, 0, 0>>, pitch |-> 0, yaw |-> 0],
             [position |-> <<64, 0, 0>>, pitch |-> 0, yaw |-> 90] }

\* Spline::new; bundle is the flag World::update and construct_zip read,
\* clear on every curve here
Spline_new ==
    [data |-> [points |-> <<>>, radius |-> 4, sides |-> 3, subdivisions |-> 16,
               name |-> "", bundle |-> FALSE],
     selected_point |-> 0,
     reconstruct_mesh |-> FALSE,
     vertices |-> <<>>,
     indices |-> <<>>,
     point_colors |-> <<>>,
     point_colors_buffer_size |-> 128]

request_rebuild(spline) == [spline EXCEPT !.reconstruct_mesh = TRUE]

\* the point of a Space press with the tangent magnitude 512 and the colour
\* white in every case
SpacePoint_AlwaysFresh(spline, camera) ==
    [position |-> camera.position, pitch |-> camera.pitch, yaw |-> camera.yaw,
     tangent_magnitude |-> 512, color |-> WHITE]

\* process_events, Key::Named(NamedKey::Space); selected_point counts from 0,
\* sequences from 1
SpacePoint(spline, camera) ==
    LET sel == spline.selected_point
        points == spline.data.points
        fresh == [position |-> camera.position, pitch |-> camera.pitch, yaw |-> camera.yaw,
                  tangent_magnitude |-> 512, color |-> WHITE]
    IN IF sel = Len(points)
       THEN IF sel # 0
            THEN [fresh EXCEPT !.tangent_magnitude = points[sel].tangent_magnitude,
                               !.color = points[sel].color]
            ELSE fresh
       ELSE [fresh EXCEPT !.tangent_magnitude = points[sel + 1].tangent_magnitude,
                          !.color = points[sel + 1].color]

process_Space(spline, camera) ==
    LET sel == spline.selected_point
        new_point == SpacePoint(spline, camera)
    IN request_rebuild(
         [spline EXCEPT !.data.points = IF sel = Len(@) THEN Append(@, new_point)
                                        ELSE [@ EXCEPT ![sel + 1] = new_point],
                        !.selected_point = sel + 1])

process_ArrowLeft(spline) ==
    IF spline.selected_point # 0 THEN [spline EXCEPT !.selected_point = @ - 1] ELSE spline

\* the ArrowRight step without its test against the number of points
process_ArrowRight_NoGuard(spline) == [spline EXCEPT !.selected_point = @ + 1]

process_ArrowRight(spline) ==
    IF spline.selected_point < Len(spline.data.points)
    THEN [spline EXCEPT !.selected_point = @ + 1] ELSE spline

InsertAt(seq, i, x) == SubSeq(seq, 1, i - 1) \o <<x>> \o SubSeq(seq, i, Len(seq))
RemoveAt(seq, i) == SubSeq(seq, 1, i - 1) \o SubSeq(seq, i + 1, Len(seq))

\* position - calculate_tangent(): the direction (cos p cos y, cos p sin y, sin p)
\* times the magnitude, for the angles of the model (0 and 90 degrees)
calculate_tangent(point) ==
    LET cos_pitch == IF point.pitch = 0 THEN 1 ELSE 0
        sin_pitch == IF point.pitch = 0 THEN 0 ELSE 1
        cos_yaw == IF point.yaw = 0 THEN 1 ELSE 0
        sin_yaw == IF point.yaw = 0 THEN 0 ELSE 1
    IN << cos_pitch * cos_yaw * point.tangent_magnitude,
          cos_pitch * sin_yaw * point.tangent_magnitude,
          sin_pitch * point.tangent_magnitude >>

add_before_selected_NoRebuild(spline) ==
    LET selected_point == spline.data.points[spline.selected_point + 1]
        tangent == calculate_tangent(selected_point)
        new_point == [selected_point EXCEPT
                        !.position = << @[1] - tangent[1], @[2] - tangent[2], @[3] - tangent[3] >>]
    IN [spline EXCEPT !.data.points = InsertAt(@, spline.selected_point + 1, new_point)]

add_before_selected(spline) ==
    LET selected_point == spline.data.points[spline.selected_point + 1]
        tangent == calculate_tangent(selected_point)
        new_point == [selected_point EXCEPT
                        !.position = << @[1] - tangent[1], @[2] - tangent[2], @[3] - tangent[3] >>]
    IN request_rebuild(
         [spline EXCEPT !.data.points = InsertAt(@, spline.selected_point + 1, new_point)])

(***************************************************************************)
(* Spline::update: the mesh rebuild                                        *)
(***************************************************************************)
\* subdiv_points.len(): subdivisions samples per segment and the last point
\* the samples without the push of the last control point
RingCount_NoEndpoint(data) == (Len(data.points) - 1) * data.subdivisions

RingCount(data) == (Len(data.points) - 1) * data.subdivisions + 1

\* a point of the curve, exactly: the vector num over the number den. A
\* coordinate that is NaN stays NaN
Exact(position, den) ==
    [num |-> [c \in 1..3 |-> IF position[c] = NaN THEN NaN ELSE position[c] * den],
     den |-> den]

\* SplineControlPoint::interpolate at t = n / d: the cubic Hermite sum, with
\* the four basis polynomials times d^3
interpolate_TangentAtStart(self, other, n, d) ==
    LET tangent_s == calculate_tangent(self)
        tangent_o == calculate_tangent(other)
        pos_s == self.position
        pos_o == other.position
        t3 == n * n * n
        t2 == n * n * d
        t1 == n * d * d
        one == d * d * d
    IN [num |-> [c \in 1..3 |->
                    IF pos_s[c] = NaN \/ pos_o[c] = NaN THEN NaN
                    ELSE (2 * t3 - 3 * t2 + one) * pos_s[c] + (t3 - 2 * t2 + one) * tangent_s[c]
                         + (3 * t2 - 2 * t3) * pos_o[c] + (t3 - t2) * tangent_o[c]],
        den |-> one]

interpolate(self, other, n, d) ==
    LET tangent_s == calculate_tangent(self)
        tangent_o == calculate_tangent(other)
        pos_s == self.position
        pos_o == other.position
        t3 == n * n * n
        t2 == n * n * d
        t1 == n * d * d
        one == d * d * d
    IN [num |-> [c \in 1..3 |->
                    IF pos_s[c] = NaN \/ pos_o[c] = NaN THEN NaN
                    ELSE (2 * t3 - 3 * t2 + one) * pos_s[c] + (t3 - 2 * t2 + t1) * tangent_s[c]
                         + (3 * t2 - 2 * t3) * pos_o[c] + (t3 - t2) * tangent_o[c]],
        den |-> one]

\* subdiv_points: subdivisions samples on each segment, from t = 0 on, and
\* the position of the last point
subdiv_points(data) ==
    LET d == data.subdivisions
    IN Flatten([i \in 1..(Len(data.points) - 1) |->
                   [s \in 1..d |-> interpolate(data.points[i], data.points[i + 1], s - 1, d)]])
       \o << Exact(data.points[Len(data.points)].position, d * d * d) >>

\* a vertex is kept as its ring, the centre of its ring, its place on the
\* polygon and its t_value i as f32 * subdiv_t, held as the pair
\* (i, subdivisions)
MeshVertices(data) ==
    LET centres == subdiv_points(data)
    IN Flatten([r \in 1..RingCount(data) |->
                   [k \in 1..data.sides |->
                       [ring |-> r - 1, centre |-> centres[r], side |-> k - 1,
                        t_value |-> [i |-> r - 1, subdivisions |-> data.subdivisions]]]])

\* for i in 1..(sides - 1): base, base + i, base + i + 1
CapIndices(base, sides) ==
    Flatten([i \in 1..(sides - 2) |-> <<base, base + i, base + i + 1>>])

\* the strips with the next side taken without the modulo
StripIndices_NoWrap(subdiv, sides) ==
    LET base_i == subdiv * sides
        next_base_i == (subdiv + 1) * sides
    IN Flatten([j \in 1..sides |->
                  LET i == j - 1
                      next_i == i + 1
                  IN << base_i + next_i, base_i + i, next_base_i + next_i,
                        base_i + i, next_base_i + i, next_base_i + next_i >>])

StripIndices(subdiv, sides) ==
    LET base_i == subdiv * sides
        next_base_i == (subdiv + 1) * sides
    IN Flatten([j \in 1..sides |->
                  LET i == j - 1
                      next_i == (i + 1) % sides
                  IN << base_i + next_i, base_i + i, next_base_i + next_i,
                        base_i + i, next_base_i + i, next_base_i + next_i >>])

MeshIndices(data) ==
    CapIndices(0, data.sides)
    \o Flatten([s \in 1..(RingCount(data) - 1) |-> StripIndices(s - 1, data.sides)])
    \o CapIndices((RingCount(data) - 1) * data.sides, data.sides)

\* `self.data.sides - 1` on a u32 side count of 0: a panic in a build with
\* overflow checks, a loop bound of 2^32 - 1 without them
SidesUnderflow(data) == Len(data.points) > 0 /\ data.sides = 0

\* `if self.reconstruct_mesh { .. }`: the mesh rebuild of update
\* the rebuild with the flag left set
Rebuild_KeepsFlag(spline) ==
    IF spline.reconstruct_mesh
    THEN IF Len(spline.data.points) > 0
         THEN [spline EXCEPT !.vertices = MeshVertices(spline.data),
                             !.indices = MeshIndices(spline.data)]
         ELSE [spline EXCEPT !.vertices = <<>>, !.indices = <<>>]
    ELSE spline

\* the rebuild with the buffers emptied before the flag is looked at
Rebuild_ResetsFirst(spline) ==
    IF spline.reconstruct_mesh
    THEN IF Len(spline.data.points) > 0
         THEN [spline EXCEPT !.vertices = MeshVertices(spline.data),
                             !.indices = MeshIndices(spline.data),
                             !.reconstruct_mesh = FALSE]
         ELSE [spline EXCEPT !.vertices = <<>>, !.indices = <<>>, !.reconstruct_mesh = FALSE]
    ELSE [spline EXCEPT !.vertices = <<>>, !.indices = <<>>]

Rebuild_NoGuard(spline) ==
    IF spline.reconstruct_mesh
    THEN [spline EXCEPT !.vertices = MeshVertices(spline.data),
                        !.indices = MeshIndices(spline.data),
                        !.reconstruct_mesh = FALSE]
    ELSE spline

Rebuild(spline) ==
    IF spline.reconstruct_mesh
    THEN IF Len(spline.data.points) > 0
         THEN [spline EXCEPT !.vertices = MeshVertices(spline.data),
                             !.indices = MeshIndices(spline.data),
                             !.reconstruct_mesh = FALSE]
         ELSE [spline EXCEPT !.vertices = <<>>, !.indices = <<>>, !.reconstruct_mesh = FALSE]
    ELSE spline

\* color_vec: one entry for each point. rgb and a are the stored bytes the
\* entry is made from; opaque says that Color32::to_opaque was applied to
\* them first (it divides red, green and blue by the alpha), inverse that
\* the entry is (1 - r, 1 - g, 1 - b) of the result. Rgba::from_rgb gives
\* the selected entry the alpha 1.0, kept here as 255
ColorVec_KeepsAlpha(spline) ==
    [i \in 1..Len(spline.data.points) |->
        LET color == spline.data.points[i].color
        IN [rgb |-> <<color[1], color[2], color[3]>>, opaque |-> FALSE,
            inverse |-> (i - 1 = spline.selected_point), a |-> color[4]]]

ColorVec(spline) ==
    [i \in 1..Len(spline.data.points) |->
        LET color == spline.data.points[i].color
        IN IF i - 1 = spline.selected_point
           THEN [rgb |-> <<color[1], color[2], color[3]>>, opaque |-> TRUE, inverse |-> TRUE,
                 a |-> 255]
           ELSE [rgb |-> <<color[1], color[2], color[3]>>, opaque |-> FALSE,
                 inverse |-> FALSE, a |-> color[4]]]

WriteColors(spline) ==
    [spline EXCEPT !.point_colors = ColorVec(spline),
                   !.point_colors_buffer_size =
                        IF Len(spline.data.points) * 4 >= @ THEN @ * 2 ELSE @]

Spline_update(spline) == WriteColors(Rebuild(spline))

\* whether update of this curve panics (or never returns)
Spline_update_fails(spline) == spline.reconstruct_mesh /\ SidesUnderflow(spline.data)

\* what is left of the curve when update fails at the first end-cap loop:
\* the buffers were emptied, no vertex was made (sides = 0), the flag stays
Spline_update_failed(spline) == [spline EXCEPT !.vertices = <<>>, !.indices = <<>>]

(***************************************************************************)
(* World: the curve list, key events, update, restore_state                *)
(***************************************************************************)
SelectedInRange == selected_spline < Len(splines)
CurrentSpline == splines[selected_spline + 1]

\* splines[selected_spline as usize] with the index past the end
IndexPanic == [msg |-> "index out of bounds", spline |-> 0]

\* the outcomes of `sides - 1` on sides = 0, by build
UnderflowOutcomes == {"attempt to subtract with overflow", "memory exhausted by the end-cap loop"}

\* saved states a file dialog can hand back: lists of SplineData
FilePoint(x) ==
    [position |-> <<x, 0, 0>>, pitch |-> 0, yaw |-> 0, tangent_magnitude |-> 512, color |-> WHITE]

FileCurve(points, sides, subdivisions) ==
    [points |-> points, radius |-> 4, sides |-> sides, subdivisions |-> subdivisions,
     name |-> "path", bundle |-> FALSE]

SavedFiles ==
    { <<>>,
      << FileCurve(<<FilePoint(0)>>, 3, 1) >>,
      << FileCurve(<<>>, 0, 0) >>,
      << FileCurve(<<FilePoint(0), FilePoint(40)>>, 0, 2) >>,
      << FileCurve(<<FilePoint(0), FilePoint(40)>>, 3, 1), FileCurve(<<>>, 3, 16) >> }

\* World::restore_state, after serde_json::from_str succeeded
restore_state(spline_data) ==
    [i \in 1..Len(spline_data) |->
        request_rebuild([Spline_new EXCEPT !.data = spline_data[i],
                                           !.selected_point = Len(spline_data[i].points)])]

\* World::input, after the camera controller passed the event on
World_input_guard == phase = "idle" /\ panic = NoPanic /\ Len(splines) > 0

KeySpace ==
    /\ World_input_guard /\ SelectedInRange
    /\ ops < MaxOps
    /\ \/ CurrentSpline.selected_point < Len(CurrentSpline.data.points)
       \/ Len(CurrentSpline.data.points) < MaxPoints
    /\ \E camera \in Cameras :
          splines' = [splines EXCEPT ![selected_spline + 1] = process_Space(@, camera)]
    /\ ops' = ops + 1
    /\ UNCHANGED <<map_vars, gui_vars, selected_spline, new_spline_requested, menu_selection,
                   load_state_future, phase, panic>>

KeyArrowLeft ==
    /\ World_input_guard /\ SelectedInRange
    /\ splines' = [splines EXCEPT ![selected_spline + 1] = process_ArrowLeft(@)]
    /\ UNCHANGED <<map_vars, gui_vars, selected_spline, new_spline_requested, menu_selection,
                   load_state_future, phase, ops, panic>>

KeyArrowRight ==
    /\ World_input_guard /\ SelectedInRange
    /\ splines' = [splines EXCEPT ![selected_spline + 1] = process_ArrowRight(@)]
    /\ UNCHANGED <<map_vars, gui_vars, selected_spline, new_spline_requested, menu_selection,
                   load_state_future, phase, ops, panic>>

\* any window event the camera controller passes on, selected_spline past the end
InputOutOfRange ==
    /\ World_input_guard /\ ~SelectedInRange
    /\ panic' = IndexPanic
    /\ UNCHANGED <<map_vars, gui_vars, splines, selected_spline, new_spline_requested, menu_selection,
                   load_state_future, phase, ops>>

\* World::update: the two loops, curves flagged bundle first
UpdateOrder(list) ==
    LET indexes == [i \in 1..Len(list) |-> i]
    IN SelectSeq(indexes, LAMBDA i : list[i].data.bundle)
       \o SelectSeq(indexes, LAMBDA i : ~list[i].data.bundle)

PlaceIn(order, i) == CHOOSE p \in 1..Len(order) : order[p] = i

\* the list after the loops and the curve whose update failed (0: none)
UpdateAll(list) ==
    LET order == UpdateOrder(list)
        failing == {p \in 1..Len(order) : Spline_update_fails(list[order[p]])}
        stop == IF failing = {} THEN Len(order) + 1
                ELSE CHOOSE p \in failing : \A q \in failing : p <= q
    IN [splines |-> [i \in 1..Len(list) |->
                        IF PlaceIn(order, i) < stop THEN Spline_update(list[i])
                        ELSE IF PlaceIn(order, i) = stop THEN Spline_update_failed(list[i])
                        ELSE list[i]],
        failed |-> IF failing = {} THEN 0 ELSE order[stop]]

WorldUpdate ==
    /\ phase = "idle" /\ panic = NoPanic
    /\ LET pushed == IF new_spline_requested THEN Append(splines, Spline_new) ELSE splines
           result == UpdateAll(pushed)
       IN /\ splines' = result.splines
          /\ selected_spline' = IF new_spline_requested THEN Len(pushed) - 1 ELSE selected_spline
          /\ IF result.failed = 0
             THEN panic' = NoPanic /\ phase' = "world_updated"
             ELSE /\ \E msg \in UnderflowOutcomes : panic' = [msg |-> msg, spline |-> result.failed]
                  /\ phase' = phase
    /\ new_spline_requested' = FALSE
    /\ UNCHANGED <<map_vars, gui_vars, menu_selection, load_state_future, ops>>

(***************************************************************************)
(* Gui::update: the poll of load_state_future                              *)
(***************************************************************************)
GuiUpdate_guard == phase = "world_updated" /\ panic = NoPanic

GuiUpdateNoFuture ==
    /\ GuiUpdate_guard /\ load_state_future = "none"
    /\ phase' = "gui_updated"
    /\ UNCHANGED <<map_vars, gui_vars, splines, selected_spline, new_spline_requested, menu_selection,
                   load_state_future, ops, panic>>

GuiUpdatePending ==
    /\ GuiUpdate_guard /\ load_state_future = "pending"
    /\ phase' = "gui_updated"
    /\ UNCHANGED <<map_vars, gui_vars, splines, selected_spline, new_spline_requested, menu_selection,
                   load_state_future, ops, panic>>

\* Poll::Ready(None): the dialog was closed, or the file is not UTF-8
GuiUpdateNoFile ==
    /\ GuiUpdate_guard /\ load_state_future = "pending"
    /\ load_state_future' = "none"
    /\ phase' = "gui_updated"
    /\ UNCHANGED <<map_vars, gui_vars, splines, selected_spline, new_spline_requested, menu_selection,
                   ops, panic>>

\* Poll::Ready(Some(save)) with a save that deserializes
GuiUpdateRestore ==
    /\ GuiUpdate_guard /\ load_state_future = "pending"
    /\ \E save \in SavedFiles : splines' = restore_state(save)
    /\ load_state_future' = "none"
    /\ phase' = "gui_updated"
    /\ UNCHANGED <<map_vars, gui_vars, selected_spline, new_spline_requested, menu_selection, ops, panic>>

\* Poll::Ready(Some(save)) with a text serde_json rejects: unwrap panics
GuiUpdateBadFile ==
    /\ GuiUpdate_guard /\ load_state_future = "pending"
    /\ panic' = [msg |-> "unwrap on an Err value", spline |-> 0]
    /\ UNCHANGED <<map_vars, gui_vars, splines, selected_spline, new_spline_requested, menu_selection,
                   load_state_future, phase, ops>>

(***************************************************************************)
(* Gui::render: one frame of the "Path Controls" window, with at most one  *)
(* widget used in the frame                                                *)
(***************************************************************************)
Render_guard == phase = "gui_updated" /\ panic = NoPanic

\* gui.rs:269 and gui.rs:301 index the list with selected_spline
PanelIndexFails == Len(splines) > 0 /\ ~SelectedInRange

\* the Spline menu is drawn and its property panel is open
PanelOpen == Render_guard /\ menu_selection = "Spline" /\ Len(splines) > 0 /\ SelectedInRange

PointEnabled == CurrentSpline.selected_point < Len(CurrentSpline.data.points)
SelectedPoint == CurrentSpline.data.points[CurrentSpline.selected_point + 1]
SetPoint(spline, point) == [spline EXCEPT !.data.points[spline.selected_point + 1] = point]

\* (x / snap_value).round() * snap_value; round is half away from zero, and
\* a snap_value of 0.0 gives inf * 0.0 or (0.0 / 0.0) * 0.0: NaN
SnapCoord(x) ==
    IF x = NaN \/ snap_value = 0 THEN NaN
    ELSE IF x >= 0 THEN ((2 * x + snap_value) \div (2 * snap_value)) * snap_value
    ELSE 0 - (((2 * (0 - x) + snap_value) \div (2 * snap_value)) * snap_value)

\* the frame ends with the selected curve edited
EditCurve(spline) ==
    /\ ops < MaxOps
    /\ splines' = [splines EXCEPT ![selected_spline + 1] = spline]
    /\ ops' = ops + 1
    /\ phase' = "idle"
    /\ UNCHANGED <<map_vars, gui_vars, selected_spline, new_spline_requested, menu_selection,
                   load_state_future, panic>>

RenderNoInput ==
    /\ Render_guard
    /\ menu_selection = "Spline" => ~PanelIndexFails
    /\ phase' = "idle"
    /\ UNCHANGED <<map_vars, gui_vars, splines, selected_spline, new_spline_requested, menu_selection,
                   load_state_future, ops, panic>>

RenderSelectMenu ==
    /\ Render_guard
    /\ \E menu \in {"Controls", "Map", "Spline"} \ {menu_selection} :
          /\ menu = "Spline" => ~PanelIndexFails
          /\ menu_selection' = menu
    /\ phase' = "idle"
    /\ UNCHANGED <<map_vars, gui_vars, splines, selected_spline, new_spline_requested,
                   load_state_future, ops, panic>>

\* the Spline menu is drawn (it was selected, or is selected in this frame)
\* with selected_spline past the end of a list that is not empty
RenderOutOfRange ==
    /\ Render_guard
    /\ PanelIndexFails
    /\ menu_selection' = "Spline"
    /\ \E clicked_add \in BOOLEAN :
          /\ clicked_add => menu_selection = "Spline"
          /\ new_spline_requested' = (new_spline_requested \/ clicked_add)
    /\ panic' = IndexPanic
    /\ UNCHANGED <<map_vars, gui_vars, splines, selected_spline, load_state_future, phase, ops>>

RenderLoadSplines ==
    /\ Render_guard /\ menu_selection = "Map"
    /\ load_state_future = "none"
    /\ ops < MaxOps
    /\ load_state_future' = "pending"
    /\ ops' = ops + 1
    /\ phase' = "idle"
    /\ UNCHANGED <<map_vars, gui_vars, splines, selected_spline, new_spline_requested, menu_selection,
                   panic>>

RenderAddSpline ==
    /\ Render_guard /\ menu_selection = "Spline"
    /\ ~PanelIndexFails
    /\ ops < MaxOps /\ Len(splines) < MaxSplines
    /\ new_spline_requested' = TRUE
    /\ ops' = ops + 1
    /\ phase' = "idle"
    /\ UNCHANGED <<map_vars, gui_vars, splines, selected_spline, menu_selection, load_state_future, panic>>

RenderRemoveSpline ==
    /\ PanelOpen
    /\ ops < MaxOps
    /\ splines' = RemoveAt(splines, selected_spline + 1)
    /\ selected_spline' = IF selected_spline # 0 THEN selected_spline - 1 ELSE selected_spline
    /\ ops' = ops + 1
    /\ phase' = "idle"
    /\ UNCHANGED <<map_vars, gui_vars, new_spline_requested, menu_selection, load_state_future, panic>>

RenderSelectSpline ==
    /\ PanelOpen
    /\ \E i \in (0..(Len(splines) - 1)) \ {selected_spline} : selected_spline' = i
    /\ phase' = "idle"
    /\ UNCHANGED <<map_vars, gui_vars, splines, new_spline_requested, menu_selection,
                   load_state_future, ops, panic>>

RenderEditRadius ==
    /\ PanelOpen
    /\ \E radius \in Radii \ {CurrentSpline.data.radius} :
          EditCurve(request_rebuild([CurrentSpline EXCEPT !.data.radius = radius]))

RenderEditSides ==
    /\ PanelOpen
    /\ \E sides \in SideCounts \ {CurrentSpline.data.sides} :
          EditCurve(request_rebuild([CurrentSpline EXCEPT !.data.sides = sides]))

RenderEditSubdivisions ==
    /\ PanelOpen
    /\ \E subdivisions \in SubdivisionCounts \ {CurrentSpline.data.subdivisions} :
          EditCurve(request_rebuild([CurrentSpline EXCEPT !.data.subdivisions = subdivisions]))

RenderEditName ==
    /\ PanelOpen
    /\ \E name \in Names \ {CurrentSpline.data.name} :
          EditCurve([CurrentSpline EXCEPT !.data.name = name])

RenderInsertPoint ==
    /\ PanelOpen /\ PointEnabled
    /\ Len(CurrentSpline.data.points) < MaxPoints
    /\ EditCurve(add_before_selected(CurrentSpline))

\* the removal of the selected point without the rebuild request
RenderRemovePoint_NoRebuild ==
    /\ PanelOpen /\ PointEnabled
    /\ EditCurve([CurrentSpline EXCEPT !.data.points = RemoveAt(@, CurrentSpline.selected_point + 1)])

RenderRemovePoint ==
    /\ PanelOpen /\ PointEnabled
    /\ EditCurve(request_rebuild(
           [CurrentSpline EXCEPT !.data.points = RemoveAt(@, CurrentSpline.selected_point + 1)]))

RenderEditPosition ==
    /\ PanelOpen /\ PointEnabled
    /\ \E axis \in 1..3 : \E c \in Coords \ {SelectedPoint.position[axis]} :
          EditCurve(request_rebuild(
              SetPoint(CurrentSpline, [SelectedPoint EXCEPT !.position[axis] = c])))

RenderSnap ==
    /\ PanelOpen /\ PointEnabled
    /\ EditCurve(request_rebuild(
           SetPoint(CurrentSpline,
                    [SelectedPoint EXCEPT !.position = << SnapCoord(@[1]), SnapCoord(@[2]),
                                                          SnapCoord(@[3]) >>])))

RenderEditPitch ==
    /\ PanelOpen /\ PointEnabled
    /\ \E pitch \in Angles \ {SelectedPoint.pitch} :
          EditCurve(request_rebuild(SetPoint(CurrentSpline, [SelectedPoint EXCEPT !.pitch = pitch])))

RenderEditYaw ==
    /\ PanelOpen /\ PointEnabled
    /\ \E yaw \in Angles \ {SelectedPoint.yaw} :
          EditCurve(request_rebuild(SetPoint(CurrentSpline, [SelectedPoint EXCEPT !.yaw = yaw])))

RenderEditTangent ==
    /\ PanelOpen /\ PointEnabled
    /\ \E magnitude \in Magnitudes \ {SelectedPoint.tangent_magnitude} :
          EditCurve(request_rebuild(
              SetPoint(CurrentSpline, [SelectedPoint EXCEPT !.tangent_magnitude = magnitude])))

\* ui.color_edit_button_srgba(&mut point.color): rebuild_spline is not set
RenderEditColor ==
    /\ PanelOpen /\ PointEnabled
    /\ \E color \in Colors \ {SelectedPoint.color} :
          EditCurve(SetPoint(CurrentSpline, [SelectedPoint EXCEPT !.color = color]))

(***************************************************************************)
(* The event loop (lib.rs): window events between frames, and              *)
(* RedrawRequested = World::update, Gui::update, Gui::render               *)
(***************************************************************************)
Init ==
    /\ map_doc = NoDoc
    /\ vmf_string = <<>>
    /\ parser = ParserStart
    /\ query = NoQuery
    /\ map_load = NoLoad
    /\ EditorStart

Next ==
    \/ KeySpace \/ KeyArrowLeft \/ KeyArrowRight \/ InputOutOfRange
    \/ WorldUpdate
    \/ GuiUpdateNoFuture \/ GuiUpdatePending \/ GuiUpdateNoFile \/ GuiUpdateRestore
    \/ GuiUpdateBadFile
    \/ RenderNoInput \/ RenderSelectMenu \/ RenderOutOfRange \/ RenderLoadSplines
    \/ RenderAddSpline \/ RenderRemoveSpline \/ RenderSelectSpline
    \/ RenderEditRadius \/ RenderEditSides \/ RenderEditSubdivisions \/ RenderEditName
    \/ RenderInsertPoint \/ RenderRemovePoint \/ RenderEditPosition \/ RenderSnap
    \/ RenderEditPitch \/ RenderEditYaw \/ RenderEditTangent \/ RenderEditColor

Spec == Init /\ [][Next]_vars

(***************************************************************************)
(* Claims on the mesh rebuild and the dirty flag                           *)
(***************************************************************************)
Curves == 1..Len(splines)

\* curve i was dirty and this World::update step ran its rebuild: to the
\* end, or into the failure that ended the program
Rebuilt(i) ==
    /\ splines[i].reconstruct_mesh
    /\ ~splines'[i].reconstruct_mesh \/ panic'.spline = i

EmptyMesh(spline) == spline.vertices = <<>> /\ spline.indices = <<>>

\* C9 as stated: rebuilding a curve that has fewer than 2 control points
\* (0 or 1) yields an empty mesh and does not fail.
C9_FewerThanTwoEmptyMesh ==
    [][WorldUpdate =>
          \A i \in Curves :
              (Rebuilt(i) /\ Len(splines[i].data.points) < 2)
                  => (EmptyMesh(splines'[i]) /\ panic'.spline # i)]_vars

\* C9, amended: rebuilding a curve that has 0 control points yields an empty
\* mesh (no vertices and no indices) and does not fail or panic.
C9_NoPointsEmptyMesh ==
    [][WorldUpdate =>
          \A i \in Curves :
              (Rebuilt(i) /\ Len(splines[i].data.points) = 0)
                  => (EmptyMesh(splines'[i]) /\ panic'.spline # i)]_vars

\* a restored curve with no points and a side count of 0 has been rebuilt
C9_Witness ==
    /\ phase = "world_updated" /\ panic = NoPanic
    /\ \E i \in Curves :
          /\ splines[i].data.points = <<>>
          /\ splines[i].data.sides = 0
          /\ ~splines[i].reconstruct_mesh
          /\ EmptyMesh(splines[i])

\* what the claim counts as a mutation: the points with their colours, and
\* the cross-section parameters
PointsAndSection(data) == <<data.points, data.radius, data.sides, data.subdivisions>>

\* the same without the colours of the points
ColourlessPoints(points) == [i \in 1..Len(points) |-> [points[i] EXCEPT !.color = WHITE]]
ShapeAndSection(data) ==
    <<ColourlessPoints(data.points), data.radius, data.sides, data.subdivisions>>

\* C10 as stated: every operation that mutates a curve's control points
\* (position, pitch, yaw, tangent magnitude or color included) or its
\* cross-section parameters sets the curve's dirty flag.
C10_MutationSetsDirty ==
    [][Len(splines') = Len(splines) =>
          \A i \in Curves :
              PointsAndSection(splines'[i].data) # PointsAndSection(splines[i].data)
                  => splines'[i].reconstruct_mesh]_vars

\* C10, amended: every operation that mutates a curve's control points (add,
\* insert, replace, remove, or change of a point's position, pitch, yaw or
\* tangent magnitude) or its cross-section parameters (radius, side count,
\* subdivision count) sets the curve's dirty flag.
C10_ShapeMutationSetsDirty ==
    [][Len(splines') = Len(splines) =>
          \A i \in Curves :
              ShapeAndSection(splines'[i].data) # ShapeAndSection(splines[i].data)
                  => splines'[i].reconstruct_mesh]_vars

\* a curve that had a mesh was mutated: it is dirty and its mesh is stale
C10_Witness ==
    \E i \in Curves :
        /\ splines[i].reconstruct_mesh
        /\ splines[i].vertices # <<>>
        /\ splines[i].vertices # MeshVertices(splines[i].data)

(***************************************************************************)
(* Claims on the life of the dirty flag                                    *)
(***************************************************************************)
\* the buffers a finished rebuild stores for this data
BuiltVertices(data) == IF Len(data.points) > 0 THEN MeshVertices(data) ELSE <<>>
BuiltIndices(data) == IF Len(data.points) > 0 THEN MeshIndices(data) ELSE <<>>

\* the update call of curve i returned in this World::update step
UpdateReturned(i) ==
    \/ panic' = NoPanic
    \/ LET order == UpdateOrder(splines') IN PlaceIn(order, i) < PlaceIn(order, panic'.spline)

MeshOf(spline) == <<spline.vertices, spline.indices, spline.reconstruct_mesh>>

\* C12: update on a curve whose dirty flag is clear leaves its vertices,
\* indices and flag as they are, and an update right after an update gives
\* the mesh the first one gave.
C12_UpdateOfCleanIsNoOp ==
    [][WorldUpdate =>
          /\ \A i \in Curves :
                ~splines[i].reconstruct_mesh => MeshOf(splines'[i]) = MeshOf(splines[i])
          /\ \A i \in 1..Len(splines') :
                UpdateReturned(i) => MeshOf(Spline_update(splines'[i])) = MeshOf(splines'[i])]_vars

\* a clean curve with a mesh went through update: its colour buffer shows a
\* colour that was picked after the rebuild (the picker leaves the flag clear)
C12_Witness ==
    /\ phase = "world_updated"
    /\ \E i \in Curves :
          /\ ~splines[i].reconstruct_mesh
          /\ splines[i].vertices # <<>>
          /\ \E k \in 1..Len(splines[i].data.points) :
                /\ splines[i].data.points[k].color # WHITE
                /\ Len(splines[i].point_colors) >= k
                /\ splines[i].point_colors[k].rgb # <<255, 255, 255>>

(***************************************************************************)
(* Claims on the shape of the rebuilt mesh                                 *)
(***************************************************************************)
\* the triangles of the mesh of a curve with points that are not between two
\* rings: 6 indices per side and ring pair are
EndCapTriangles(spline) ==
    IF Len(spline.data.points) = 0 THEN Len(spline.indices) \div 3
    ELSE (Len(spline.indices) - 6 * spline.data.sides * (RingCount(spline.data) - 1)) \div 3

\* C13: for every side count below 3 (0, 1 and 2) a rebuild emits no end-cap
\* triangle, and the loop bound sides - 1 does not underflow.
C13_FewSidesNoCapNoUnderflow ==
    [][WorldUpdate =>
          \A i \in Curves :
              (Rebuilt(i) /\ splines[i].data.sides < 3)
                  => (panic'.spline # i /\ EndCapTriangles(splines'[i]) = 0)]_vars

\* the triangles of an index buffer, and the rings a triangle touches
TriangleAt(indices, t) == <<indices[3 * t - 2], indices[3 * t - 1], indices[3 * t]>>
RingsOf(triangle, sides) == {triangle[c] \div sides : c \in 1..3}
TrianglesOn(spline, rings) ==
    Cardinality({t \in 1..(Len(spline.indices) \div 3) :
                    RingsOf(TriangleAt(spline.indices, t), spline.data.sides) = rings})

\* a rebuilt curve with n >= 2 points, s >= 1 subdivisions and k >= 3 sides
FullCurve(spline) ==
    /\ ~spline.reconstruct_mesh
    /\ Len(spline.data.points) >= 2
    /\ spline.data.subdivisions >= 1
    /\ spline.data.sides >= 3

\* C14: a rebuild of a curve with n >= 2 points, s >= 1 subdivisions and
\* k >= 3 sides gives (n-1)*s+1 rings of k vertices, the last ring at the
\* final control point, k-2 cap triangles at each end and 2*k connecting
\* triangles per pair of consecutive rings; 6 vertices, 1 + 1 cap triangles
\* and 6 connecting triangles for n = 2, s = 1, k = 3.
C14_RingAndTriangleCounts ==
    \A i \in Curves :
        FullCurve(splines[i]) =>
            LET n == Len(splines[i].data.points)
                s == splines[i].data.subdivisions
                k == splines[i].data.sides
                rings == (n - 1) * s + 1
                vertices == splines[i].vertices
            IN /\ Len(vertices) = rings * k
               /\ \A v \in 1..Len(vertices) : vertices[v].ring = (v - 1) \div k
               /\ vertices[Len(vertices)].t_value = [i |-> (n - 1) * s, subdivisions |-> s]
               /\ Len(splines[i].indices) = 3 * (2 * (k - 2) + 2 * k * (rings - 1))
               /\ TrianglesOn(splines[i], {0}) = k - 2
               /\ TrianglesOn(splines[i], {rings - 1}) = k - 2
               /\ \A r \in 0..(rings - 2) : TrianglesOn(splines[i], {r, r + 1}) = 2 * k
               /\ (n = 2 /\ s = 1 /\ k = 3) =>
                     (Len(vertices) = 6 /\ Len(splines[i].indices) = 24)

\* a rebuilt curve of 2 points and 1 subdivision whose side count was set to 4
C14_Witness ==
    \E i \in Curves :
        /\ FullCurve(splines[i])
        /\ Len(splines[i].data.points) = 2
        /\ splines[i].data.subdivisions = 1
        /\ splines[i].data.sides = 4
        /\ Len(splines[i].vertices) = 8
        /\ Len(splines[i].indices) = 36

(***************************************************************************)
(* The saved state: World::save_state and World::restore_state, with the   *)
(* JSON text serde_json writes for Vec<&SplineData> and reads back         *)
(***************************************************************************)
DigitChars == <<"0", "1", "2", "3", "4", "5", "6", "7", "8", "9">>

\* the decimal digits of a natural number, most significant first
RECURSIVE Digits(_)
Digits(n) ==
    IF n < 10 THEN <<DigitChars[n + 1]>>
    ELSE Digits(n \div 10) \o <<DigitChars[(n % 10) + 1]>>

IsDigit(c) == \E d \in 0..9 : DigitChars[d + 1] = c
DigitValue(c) == CHOOSE d \in 0..9 : DigitChars[d + 1] = c

\* the number a run of decimal digits stands for
RECURSIVE Number(_)
Number(chars) ==
    IF chars = <<>> THEN 0
    ELSE Number(SubSeq(chars, 1, Len(chars) - 1)) * 10 + DigitValue(chars[Len(chars)])

\* a u32 or u8 is written as its digits
to_json_uint(n) == [kind |-> "number", text |-> Digits(n)]

\* an f32 is written with a fraction (4.0, -72.0), but NaN and the
\* infinities are written as null
to_json_f32(x) ==
    IF x = NaN THEN [kind |-> "null"]
    ELSE [kind |-> "number",
          text |-> (IF x < 0 THEN <<"-">> ELSE <<>>) \o Digits(IF x < 0 THEN 0 - x ELSE x)
                   \o <<".", "0">>]

Member(key, value) == [key |-> key, value |-> value]

\* cgmath's Point3 is a struct of x, y and z
to_json_Point3(p) ==
    [kind |-> "object",
     members |-> << Member("x", to_json_f32(p[1])), Member("y", to_json_f32(p[2])),
                    Member("z", to_json_f32(p[3])) >>]

\* egui's Color32 is a newtype of [u8; 4]
to_json_Color32(c) ==
    [kind |-> "array", items |-> [k \in 1..4 |-> to_json_uint(c[k])]]

\* the derived Serialize of SplineControlPoint: the fields in declaration
\* order; Deg is a newtype of its number
to_json_SplineControlPoint(point) ==
    [kind |-> "object",
     members |-> << Member("position", to_json_Point3(point.position)),
                    Member("pitch", to_json_f32(point.pitch)),
                    Member("yaw", to_json_f32(point.yaw)),
                    Member("tangent_magnitude", to_json_f32(point.tangent_magnitude)),
                    Member("color", to_json_Color32(point.color)) >>]

\* the derived Serialize of SplineData
to_json_SplineData(data) ==
    [kind |-> "object",
     members |-> << Member("points",
                           [kind |-> "array",
                            items |-> [k \in 1..Len(data.points) |->
                                          to_json_SplineControlPoint(data.points[k])]]),
                    Member("radius", to_json_f32(data.radius)),
                    Member("sides", to_json_uint(data.sides)),
                    Member("subdivisions", to_json_uint(data.subdivisions)),
                    Member("name", [kind |-> "string", text |-> data.name]) >>]

\* World::save_state: the data of every curve, in list order
save_state(list) ==
    [kind |-> "array", items |-> [i \in 1..Len(list) |-> to_json_SplineData(list[i].data)]]

\* the error of serde_json
JsonErr == Err("serde_json error")

AllDigits(chars) == chars # <<>> /\ \A k \in 1..Len(chars) : IsDigit(chars[k])

\* a u8 or u32: digits only, no sign, no fraction, and within the type. A
\* run of up to width digits with a value up to max is; the numbers of the
\* model stay below ten digits
from_json_uint(v, width, max) ==
    IF v.kind = "number" /\ AllDigits(v.text) /\ Len(v.text) <= width /\ Number(v.text) <= max
    THEN Ok(Number(v.text))
    ELSE JsonErr

\* an f32: a number; null is "invalid type: null, expected f32". The values
\* of the model are whole, so the fraction read here is a run of zeros
from_json_f32(v) ==
    IF v.kind # "number" THEN JsonErr
    ELSE LET negative == v.text[1] = "-"
             unsigned == IF negative THEN Tail(v.text) ELSE v.text
             dots == {k \in 1..Len(unsigned) : unsigned[k] = "."}
             dot == IF dots = {} THEN Len(unsigned) + 1 ELSE CHOOSE k \in dots : TRUE
             whole == SubSeq(unsigned, 1, dot - 1)
             fraction == SubSeq(unsigned, dot + 1, Len(unsigned))
         IN IF /\ Cardinality(dots) <= 1
               /\ AllDigits(whole)
               /\ dots # {} => AllDigits(fraction)
               /\ \A k \in 1..Len(fraction) : fraction[k] = "0"
            THEN Ok(IF negative THEN 0 - Number(whole) ELSE Number(whole))
            ELSE JsonErr

\* the derived Deserialize of a struct reads each field by its name: a
\* missing key and a repeated key are errors, other keys are skipped
Field(v, key) ==
    IF v.kind # "object" THEN JsonErr
    ELSE LET hits == {k \in 1..Len(v.members) : v.members[k].key = key}
         IN IF Cardinality(hits) = 1
            THEN Ok(v.members[CHOOSE k \in hits : TRUE].value)
            ELSE JsonErr

Field_f32(v, key) ==
    LET field == Field(v, key) IN IF field.ok THEN from_json_f32(field.value) ELSE JsonErr

Field_u32(v, key) ==
    LET field == Field(v, key)
    IN IF field.ok THEN from_json_uint(field.value, 9, 999999999) ELSE JsonErr

from_json_Point3(v) ==
    LET x == Field_f32(v, "x")
        y == Field_f32(v, "y")
        z == Field_f32(v, "z")
    IN IF x.ok /\ y.ok /\ z.ok THEN Ok(<<x.value, y.value, z.value>>) ELSE JsonErr

from_json_Color32(v) ==
    IF v.kind = "array" /\ Len(v.items) = 4
       /\ \A k \in 1..4 : from_json_uint(v.items[k], 3, 255).ok
    THEN Ok([k \in 1..4 |-> from_json_uint(v.items[k], 3, 255).value])
    ELSE JsonErr

from_json_SplineControlPoint(v) ==
    LET position_field == Field(v, "position")
        position == IF position_field.ok THEN from_json_Point3(position_field.value) ELSE JsonErr
        pitch == Field_f32(v, "pitch")
        yaw == Field_f32(v, "yaw")
        tangent_magnitude == Field_f32(v, "tangent_magnitude")
        color_field == Field(v, "color")
        color == IF color_field.ok THEN from_json_Color32(color_field.value) ELSE JsonErr
    IN IF position.ok /\ pitch.ok /\ yaw.ok /\ tangent_magnitude.ok /\ color.ok
       THEN Ok([position |-> position.value, pitch |-> pitch.value, yaw |-> yaw.value,
                tangent_magnitude |-> tangent_magnitude.value, color |-> color.value])
       ELSE JsonErr

\* the derived Deserialize of SplineData; the saved record has no bundle
\* flag, and the restored curve is not a bundle
from_json_SplineData(v) ==
    LET points_field == Field(v, "points")
        items == points_field.value.items
        points == IF /\ points_field.ok
                     /\ points_field.value.kind = "array"
                     /\ \A k \in 1..Len(items) : from_json_SplineControlPoint(items[k]).ok
                  THEN Ok([k \in 1..Len(items) |-> from_json_SplineControlPoint(items[k]).value])
                  ELSE JsonErr
        radius == Field_f32(v, "radius")
        sides == Field_u32(v, "sides")
        subdivisions == Field_u32(v, "subdivisions")
        name_field == Field(v, "name")
        name == IF name_field.ok /\ name_field.value.kind = "string"
                THEN Ok(name_field.value.text) ELSE JsonErr
    IN IF points.ok /\ radius.ok /\ sides.ok /\ subdivisions.ok /\ name.ok
       THEN Ok([points |-> points.value, radius |-> radius.value, sides |-> sides.value,
                subdivisions |-> subdivisions.value, name |-> name.value, bundle |-> FALSE])
       ELSE JsonErr

\* serde_json::from_str::<Vec<SplineData>>
from_str(v) ==
    IF v.kind = "array" /\ \A i \in 1..Len(v.items) : from_json_SplineData(v.items[i]).ok
    THEN Ok([i \in 1..Len(v.items) |-> from_json_SplineData(v.items[i]).value])
    ELSE JsonErr

(***************************************************************************)
(* The export: construct_zip and smd_from_spline                           *)
(***************************************************************************)
\* format!("spline-{i}.smd") and format!("spline-{i}.qc")
FileName(i, extension) == <<"spline-">> \o Digits(i) \o <<extension>>

\* a0 * (1.0 - t) + a1 * t on the alphas of the two points, t = m / s, and
\* back to 8 bits: (a * 255.0 + 0.5) as u8
BlendAlpha(a0, a1, m, s) == (2 * (a0 * (s - m) + a1 * m) + s) \div (2 * s)

vmt_name_Full255(qa, alpha) == IF alpha = 255 THEN "spline.vmt" ELSE "spline-transparent.vmt"

vmt_name(qa, alpha) == IF qa = 31 THEN "spline.vmt" ELSE "spline-transparent.vmt"

\* the t-value of a triangle with the first vertex's value in every case
full_t_FirstVertex(v0, v1, v2) == v0.t_value

\* "We use the color of the majority t-value": the value of v0 when v1 or
\* v2 has it too, the value of v1 otherwise
full_t(v0, v1, v2) ==
    IF v0.t_value = v1.t_value \/ v0.t_value = v2.t_value THEN v0.t_value ELSE v1.t_value

\* the two entries of data.points that smd_from_spline reads for a triangle:
\* full_t.floor() and min(full_t.ceil(), points.len() - 1)
color_indices(spline, v0, v1, v2) ==
    LET full == full_t(v0, v1, v2)
        floor == full.i \div full.subdivisions
        ceil == (full.i + full.subdivisions - 1) \div full.subdivisions
        last == Len(spline.data.points) - 1
    IN <<floor, IF ceil < last THEN ceil ELSE last>>

InVertices(spline, k) ==
    \A c \in 0..2 : spline.indices[3 * k - c] < Len(spline.vertices)

\* the lookups of triangle k, each inside the list it indexes
LookupsInRange(spline, k) ==
    /\ InVertices(spline, k)
    /\ LET found == color_indices(spline, spline.vertices[spline.indices[3 * k - 2] + 1],
                                          spline.vertices[spline.indices[3 * k - 1] + 1],
                                          spline.vertices[spline.indices[3 * k] + 1])
       IN \A c \in 1..2 : found[c] >= 0 /\ found[c] < Len(spline.data.points)

\* construct_zip reaches an index past the end of a list and panics
ExportFails(list) ==
    \E i \in 1..Len(list) :
        /\ ~list[i].data.bundle
        /\ \E k \in 1..(Len(list[i].indices) \div 3) : ~LookupsInRange(list[i], k)

ExportPanic == [msg |-> "index out of bounds in smd_from_spline", spline |-> 0]

\* one triangle of the triangles block: the material name and the alpha in
\* the v coordinate; red, green and blue, which go through the gamma
\* curve, and the positions and normals are left out
smd_triangle(spline, v0, v1, v2) ==
    LET points == spline.data.points
        full == full_t(v0, v1, v2)
        floor == full.i \div full.subdivisions
        ceil == (full.i + full.subdivisions - 1) \div full.subdivisions
        color0 == points[floor + 1].color
        color1 == points[(IF ceil < Len(points) - 1 THEN ceil ELSE Len(points) - 1) + 1].color
        alpha == BlendAlpha(color0[4], color1[4], full.i % full.subdivisions,
                            full.subdivisions)
        qa == alpha \div 8
    IN [vmt_name |-> vmt_name(qa, alpha), qa |-> qa, alpha |-> alpha]

\* smd_from_spline: one triangle for every three indices
smd_from_spline(spline) ==
    [k \in 1..(Len(spline.indices) \div 3) |->
        smd_triangle(spline, spline.vertices[spline.indices[3 * k - 2] + 1],
                             spline.vertices[spline.indices[3 * k - 1] + 1],
                             spline.vertices[spline.indices[3 * k] + 1])]

\* the QC file: the name and the negated origin of the first point
qc_from_spline(spline, i) ==
    LET origin == IF Len(spline.data.points) = 0 THEN <<0, 0, 0>>
                  ELSE spline.data.points[1].position
    IN [modelname |-> spline.data.name,
        origin |-> <<0 - origin[1], 0 - origin[2], 0 - origin[3]>>,
        body |-> <<"spline-">> \o Digits(i)]

\* the three fixed files, after their directory
MaterialFiles ==
    << [name |-> <<"materials/spline-gen">>, kind |-> "directory"],
       [name |-> <<"materials/spline-gen/spline.vtf">>, kind |-> "vtf"],
       [name |-> <<"materials/spline-gen/spline.vmt">>, kind |-> "vmt"],
       [name |-> <<"materials/spline-gen/spline-transparent.vmt">>, kind |-> "vmt"] >>

\* the files of the curves from index i (from 0) on
RECURSIVE ModelFiles_CountExported(_, _)
ModelFiles_CountExported(list, i) ==
    LET before == Cardinality({k \in 1..i : ~list[k].data.bundle})
    IN IF i >= Len(list) THEN <<>>
       ELSE IF list[i + 1].data.bundle THEN ModelFiles_CountExported(list, i + 1)
       ELSE << [name |-> FileName(before, ".smd"), kind |-> "smd",
                triangles |-> smd_from_spline(list[i + 1])],
               [name |-> FileName(before, ".qc"), kind |-> "qc",
                qc |-> qc_from_spline(list[i + 1], before)] >>
            \o ModelFiles_CountExported(list, i + 1)

RECURSIVE ModelFiles(_, _)
ModelFiles(list, i) ==
    IF i >= Len(list) THEN <<>>
    ELSE IF list[i + 1].data.bundle THEN ModelFiles(list, i + 1)
    ELSE << [name |-> FileName(i, ".smd"), kind |-> "smd",
             triangles |-> smd_from_spline(list[i + 1])],
            [name |-> FileName(i, ".qc"), kind |-> "qc",
             qc |-> qc_from_spline(list[i + 1], i)] >>
         \o ModelFiles(list, i + 1)

\* construct_zip: the entries of the archive, in the order written
construct_zip(list) == ModelFiles(list, 0) \o MaterialFiles

(***************************************************************************)
(* The editor with its files: the frames of a session that saves, loads    *)
(* and exports curve lists it holds                                        *)
(***************************************************************************)
LoadedPoint(x, yaw, color) ==
    [position |-> <<x, 0, 24>>, pitch |-> 0, yaw |-> yaw, tangent_magnitude |-> 256,
     color |-> color]

LoadedCurve(points, radius, sides, subdivisions, name, bundle) ==
    [points |-> points, radius |-> radius, sides |-> sides, subdivisions |-> subdivisions,
     name |-> name, bundle |-> bundle]

\* the curve lists a session starts from
HeldLists ==
    { <<>>,
      << LoadedCurve(<< LoadedPoint(0 - 72, 90, WHITE), LoadedPoint(40, 0, <<128, 0, 0, 128>>) >>,
                     8, 4, 1, "path", FALSE) >>,
      << LoadedCurve(<< LoadedPoint(40, 0, <<0, 64, 200, 248>>) >>, 4, 3, 16, "", FALSE),
         LoadedCurve(<< LoadedPoint(0, 0, WHITE), LoadedPoint(40, 90, <<0, 64, 200, 247>>) >>,
                     4, 3, 2, "path", TRUE) >>,
      << LoadedCurve(<< LoadedPoint(0, 0, WHITE), LoadedPoint(40, 0, WHITE) >>,
                     8, 3, 1, "rail", TRUE),
         LoadedCurve(<< LoadedPoint(0, 0, <<0, 64, 200, 247>>), LoadedPoint(40, 0, WHITE) >>,
                     4, 3, 2, "path", FALSE) >>,
      << LoadedCurve(<<>>, 4, 1, 1, "", FALSE) >> }

InitFile ==
    /\ map_doc = NoDoc
    /\ vmf_string = <<>>
    /\ parser = ParserStart
    /\ query = NoQuery
    /\ map_load = NoLoad
    /\ splines \in {restore_state(list) : list \in HeldLists}
    /\ selected_spline = 0
    /\ new_spline_requested = FALSE
    /\ menu_selection = "Controls"
    /\ load_state_future = "none"
    /\ phase = "idle"
    /\ ops = 0
    /\ panic = NoPanic
    /\ save_state_future = NoFuture
    /\ state_file = NoFile
    /\ export_spline_future = NoFuture
    /\ snap_value = 64

\* the file dialog of the load future: still open, closed without a file, or
\* closed on the file the session saved
LoadOutcomes ==
    IF load_state_future = "none" THEN {"idle"}
    ELSE {"pending", "closed"} \cup (IF state_file = NoFile THEN {} ELSE {"read"})

\* the file dialog of the save future: still open, closed without a file, or
\* closed on a file, which the future then writes
SaveOutcomes ==
    IF save_state_future = NoFuture THEN {"idle"} ELSE {"pending", "closed", "written"}

ExportOutcomes ==
    IF export_spline_future = NoFuture THEN {"idle"} ELSE {"pending", "finished"}

\* Gui::update: the polls of load_state_future, save_state_future and
\* export_spline_future, in this order
GuiUpdate ==
    /\ GuiUpdate_guard
    /\ \E load \in LoadOutcomes, save \in SaveOutcomes, export \in ExportOutcomes :
          LET parsed == from_str(state_file.text)
          IN IF load = "read" /\ ~parsed.ok
             THEN /\ panic' = [msg |-> "unwrap on an Err value", spline |-> 0]
                  /\ UNCHANGED <<splines, load_state_future, phase, save_state_future,
                                 state_file, export_spline_future>>
             ELSE /\ splines' = IF load = "read" THEN restore_state(parsed.value) ELSE splines
                  /\ load_state_future' = IF load \in {"closed", "read"} THEN "none"
                                          ELSE load_state_future
                  /\ save_state_future' = IF save \in {"closed", "written"} THEN NoFuture
                                          ELSE save_state_future
                  /\ state_file' = IF save = "written"
                                   THEN [written |-> TRUE, text |-> save_state_future.text,
                                         data |-> save_state_future.data]
                                   ELSE state_file
                  /\ export_spline_future' = IF export = "finished" THEN NoFuture
                                             ELSE export_spline_future
                  /\ phase' = "gui_updated"
                  /\ UNCHANGED panic
    /\ UNCHANGED <<map_vars, selected_spline, new_spline_requested, menu_selection, ops,
                   snap_value>>

\* the "Save splines" button: the state is serialized in the frame of the
\* click; data keeps the curve data the text was made from
RenderSaveSplines ==
    /\ Render_guard /\ menu_selection = "Map"
    /\ ops < MaxOps
    /\ save_state_future' = [pending |-> TRUE, text |-> save_state(splines),
                             data |-> [i \in 1..Len(splines) |-> splines[i].data]]
    /\ ops' = ops + 1
    /\ phase' = "idle"
    /\ UNCHANGED <<map_vars, splines, selected_spline, new_spline_requested,
                   menu_selection, load_state_future, panic, state_file, export_spline_future, snap_value>>

\* the DragValue of snap_value, in the point properties
RenderEditSnapValue ==
    /\ PanelOpen /\ PointEnabled
    /\ \E value \in {0, 64} \ {snap_value} : snap_value' = value
    /\ phase' = "idle"
    /\ UNCHANGED <<map_vars, splines, selected_spline, new_spline_requested,
                   menu_selection, load_state_future, ops, panic, save_state_future, state_file,
                   export_spline_future>>

\* the Export button of the Spline menu, above the property panel
RenderExport ==
    /\ Render_guard /\ menu_selection = "Spline"
    /\ ~PanelIndexFails
    /\ ops < MaxOps
    /\ IF ExportFails(splines)
       THEN /\ panic' = ExportPanic
            /\ UNCHANGED <<export_spline_future, ops, phase>>
       ELSE /\ export_spline_future' = [pending |-> TRUE, zip |-> construct_zip(splines)]
            /\ ops' = ops + 1
            /\ phase' = "idle"
            /\ UNCHANGED panic
    /\ UNCHANGED <<map_vars, splines, selected_spline, new_spline_requested,
                   menu_selection, load_state_future, save_state_future,
                   state_file, snap_value>>

NextFile ==
    \/ KeyArrowLeft
    \/ WorldUpdate
    \/ GuiUpdate
    \/ RenderNoInput \/ RenderSelectMenu \/ RenderLoadSplines \/ RenderSaveSplines
    \/ RenderEditSnapValue \/ RenderSnap \/ RenderExport

SpecFile == InitFile /\ [][NextFile]_vars

(***************************************************************************)
(* Claims on the saved state and the export                                *)
(***************************************************************************)
\* the fields of a curve the saved state is to bring back
SavedFields(data) ==
    [points |-> data.points, radius |-> data.radius, sides |-> data.sides,
     subdivisions |-> data.subdivisions, name |-> data.name]

\* restoring the text gives the curves of list back, in order, every one
\* dirty, and the update after it builds the mesh of the restored data
RoundTrip(text, list) ==
    LET parsed == from_str(text)
        restored == restore_state(parsed.value)
    IN /\ parsed.ok
       /\ Len(restored) = Len(list)
       /\ \A i \in 1..Len(list) :
             /\ SavedFields(restored[i].data) = SavedFields(list[i])
             /\ restored[i].reconstruct_mesh
             /\ ~Spline_update_fails(restored[i])
             /\ Spline_update(restored[i]).vertices = BuiltVertices(list[i])
             /\ Spline_update(restored[i]).indices = BuiltIndices(list[i])

\* C15: save_state followed by restore_state reproduces, for every curve and
\* in the same order, the same control points, radius, side count,
\* subdivision count and name; every restored curve has its dirty flag set,
\* so the next update rebuilds its mesh from the restored data.
C15_SaveRestoreRoundTrip ==
    /\ state_file # NoFile => RoundTrip(state_file.text, state_file.data)
    /\ panic.msg # "unwrap on an Err value"

\* the entries of the archive that have this name; curve i of Curves is at
\* position i - 1 of the list, whose digit is DigitChars[i]
EntriesNamed(zip, name) == {k \in 1..Len(zip) : zip[k].name = name}

\* the archive the Export click of this step made
ExportedNow ==
    /\ export_spline_future' # export_spline_future
    /\ export_spline_future' # NoFuture

\* C16: construct_zip emits a mesh-description file and a metadata file for
\* exactly the curves that are not flagged as bundle, each named by the
\* curve's position in the full curve list, and emits neither file for any
\* bundle curve.
C16_FilesForNonBundleCurves ==
    [][ExportedNow =>
          LET zip == export_spline_future'.zip
          IN /\ \A i \in Curves :
                   LET smd == EntriesNamed(zip, <<"spline-", DigitChars[i], ".smd">>)
                       qc == EntriesNamed(zip, <<"spline-", DigitChars[i], ".qc">>)
                   IN IF splines[i].data.bundle
                      THEN smd = {} /\ qc = {}
                      ELSE /\ Cardinality(smd) = 1 /\ Cardinality(qc) = 1
                           /\ \A k \in smd : zip[k].kind = "smd"
                           /\ \A k \in qc : zip[k].kind = "qc"
             /\ Cardinality({k \in 1..Len(zip) : zip[k].kind = "smd"})
                   = Cardinality({i \in Curves : ~splines[i].data.bundle})
             /\ Cardinality({k \in 1..Len(zip) : zip[k].kind = "qc"})
                   = Cardinality({i \in Curves : ~splines[i].data.bundle})]_vars

\* an archive was made of a list with a bundle curve before a curve that is
\* not one
C16_Witness ==
    /\ export_spline_future # NoFuture
    /\ Len(splines) = 2
    /\ splines[1].data.bundle /\ ~splines[2].data.bundle
    /\ \E k \in 1..Len(export_spline_future.zip) :
          export_spline_future.zip[k].name = <<"spline-", "1", ".smd">>

\* the triangles of the mesh-description files of an archive
TrianglesOf(zip) ==
    UNION { {<<k, n>> : n \in 1..Len(zip[k].triangles)} :
               k \in {j \in 1..Len(zip) : zip[j].kind = "smd"} }

\* C17: in the exported mesh, a triangle is written with the opaque material
\* name exactly when its blended alpha, quantized from 8 bits to 32 steps by
\* integer division by 8, equals 31; for every other quantized alpha (0..30)
\* it is written with the translucent material name.
C17_OpaqueIffQuantizedAlpha31 ==
    export_spline_future # NoFuture =>
        \A e \in TrianglesOf(export_spline_future.zip) :
            LET triangle == export_spline_future.zip[e[1]].triangles[e[2]]
            IN /\ triangle.alpha \in 0..255
               /\ triangle.qa \in 0..31
               /\ 8 * triangle.qa <= triangle.alpha /\ triangle.alpha < 8 * triangle.qa + 8
               /\ triangle.alpha >= 248 => triangle.vmt_name = "spline.vmt"
               /\ triangle.alpha < 248 => triangle.vmt_name = "spline-transparent.vmt"

\* an archive with an opaque triangle whose alpha is below 255 and a
\* translucent one whose quantized alpha is 30
C17_Witness ==
    /\ export_spline_future # NoFuture
    /\ \E e, f \in TrianglesOf(export_spline_future.zip) :
          LET opaque == export_spline_future.zip[e[1]].triangles[e[2]]
              translucent == export_spline_future.zip[f[1]].triangles[f[2]]
          IN /\ opaque.vmt_name = "spline.vmt" /\ opaque.alpha < 255
             /\ translucent.vmt_name = "spline-transparent.vmt" /\ translucent.qa = 30

(***************************************************************************)
(* Claims on the colour buffer and the curve samples                       *)
(***************************************************************************)
\* entry k of the colour buffer is the stored colour of point k as it is
StoredColour(spline, k) ==
    LET color == spline.data.points[k].color
    IN spline.point_colors[k] = [rgb |-> <<color[1], color[2], color[3]>>, opaque |-> FALSE,
                                 inverse |-> FALSE, a |-> color[4]]

\* this step is a World::update in which the update call of curve i returned
Updated(i) == WorldUpdate /\ i \in 1..Len(splines') /\ UpdateReturned(i)

\* C18 as stated: in the per-control-point color buffer written by every
\* update, each non-selected point has its stored color unchanged, and the
\* selected point has (1-r, 1-g, 1-b) with the same alpha as its stored
\* color.
C18_SelectedInvertedSameAlpha ==
    [][\A i \in 1..MaxSplines : Updated(i) =>
          LET spline == splines'[i]
          IN /\ Len(spline.point_colors) = Len(spline.data.points)
             /\ \A k \in 1..Len(spline.data.points) :
                   LET color == spline.data.points[k].color
                       entry == spline.point_colors[k]
                   IN IF k - 1 = spline.selected_point
                      THEN /\ entry.inverse
                           /\ entry.rgb = <<color[1], color[2], color[3]>>
                           /\ entry.opaque => color[4] = 255
                           /\ entry.a = color[4]
                      ELSE StoredColour(spline, k)]_vars

\* C18, amended: each non-selected point has its stored color unchanged, and
\* the selected point has (1-r, 1-g, 1-b) of its stored color made opaque,
\* with the alpha 1.0 whatever the alpha of its stored color.
C18_SelectedInvertedOpaque ==
    [][\A i \in 1..MaxSplines : Updated(i) =>
          LET spline == splines'[i]
          IN /\ Len(spline.point_colors) = Len(spline.data.points)
             /\ \A k \in 1..Len(spline.data.points) :
                   LET color == spline.data.points[k].color
                       entry == spline.point_colors[k]
                   IN IF k - 1 = spline.selected_point
                      THEN /\ entry.inverse /\ entry.opaque
                           /\ entry.rgb = <<color[1], color[2], color[3]>>
                           /\ entry.a = 255
                      ELSE StoredColour(spline, k)]_vars

\* an update has written the buffer of a curve of two points whose selected
\* point has a translucent colour
C18_Witness ==
    /\ phase = "world_updated" /\ panic = NoPanic
    /\ \E i \in Curves :
          LET spline == splines[i]
          IN /\ Len(spline.data.points) = 2
             /\ spline.selected_point < 2
             /\ spline.data.points[spline.selected_point + 1].color[4] < 255
             /\ Len(spline.point_colors) = 2
             /\ spline.point_colors[spline.selected_point + 1].a = 255

\* the exact point is this position
IsAt(exact, position) ==
    \A c \in 1..3 : position[c] # NaN /\ exact.num[c] = position[c] * exact.den

\* C19: for any two consecutive control points and any tangents, interpolate
\* returns exactly the first point's position at t=0 and exactly the second
\* point's position at t=1, so the sample ring at index i*subdivisions is
\* centred on control point i.
C19_HermiteEndpointsExact ==
    \A i \in Curves :
        LET data == splines[i].data
            d == data.subdivisions
        IN /\ \A p \in 1..(Len(data.points) - 1) :
                 /\ IsAt(interpolate(data.points[p], data.points[p + 1], 0, d),
                         data.points[p].position)
                 /\ IsAt(interpolate(data.points[p], data.points[p + 1], d, d),
                         data.points[p + 1].position)
           /\ ~splines[i].reconstruct_mesh =>
                 \A k \in 1..Len(splines[i].vertices) : \A p \in 1..Len(data.points) :
                     splines[i].vertices[k].ring = (p - 1) * d
                         => IsAt(splines[i].vertices[k].centre, data.points[p].position)

\* a built curve of two points at different places, with a tangent that is
\* not zero, sampled 16 times: ring 16 is at the second point and ring 8 at
\* neither
C19_Witness ==
    /\ panic = NoPanic
    /\ \E i \in Curves :
          LET data == splines[i].data
          IN /\ ~splines[i].reconstruct_mesh
             /\ Len(data.points) = 2 /\ data.subdivisions = 16
             /\ data.points[1].position # data.points[2].position
             /\ calculate_tangent(data.points[1]) # <<0, 0, 0>>
             /\ \E k \in 1..Len(splines[i].vertices) :
                   /\ splines[i].vertices[k].ring = 16
                   /\ IsAt(splines[i].vertices[k].centre, data.points[2].position)
             /\ \E k \in 1..Len(splines[i].vertices) :
                   /\ splines[i].vertices[k].ring = 8
                   /\ ~IsAt(splines[i].vertices[k].centre, data.points[1].position)
                   /\ ~IsAt(splines[i].vertices[k].centre, data.points[2].position)

(***************************************************************************)
(* Map files with no, one or two world branches and the entity before or   *)
(* after them                                                              *)
(***************************************************************************)
PlainSides ==
    { [material |-> m, mform |-> "leaf", n |-> 4, vform |-> "ok"] :
         m \in {"WALL01", "tools/toolsnodraw"} }

SourceLines(doc) ==
    LET worlds == Flatten([k \in 1..doc.worlds |-> WorldLines(doc.sides)])
    IN IF doc.entity_first
       THEN EntityLines(doc.entity) \o <<"">> \o worlds
       ELSE worlds \o <<"">> \o EntityLines(doc.entity)

InitSources ==
    /\ map_doc \in { [sides |-> ss, entity |-> e, worlds |-> w, entity_first |-> f] :
                        ss \in SeqsUpTo(PlainSides, MaxSides), e \in EntityKinds,
                        w \in 0..2, f \in BOOLEAN }
    /\ vmf_string = SourceLines(map_doc)
    /\ parser = ParserStart
    /\ query = NoQuery
    /\ map_load = NoLoad
    /\ EditorStart

SpecSources == InitSources /\ [][NextMap]_vars

\* the face number of every vertex Map::from_string is to give for the file:
\* the retained world sides in file order, then the side of a func_detail
\* entity
SourceFaces ==
    Flatten([i \in 1..Len(map_doc.sides) |->
                IF Retained(map_doc.sides[i]) THEN [j \in 1..map_doc.sides[i].n |-> i]
                ELSE <<>>])
    \o (IF map_doc.entity = "func_detail" THEN <<0, 0, 0>> ELSE <<>>)

\* C21: Map::from_string takes faces from exactly two sources, in this
\* order: the solids under the single top-level world branch, then the
\* solids under entity branches whose classname is exactly func_detail; an
\* entity whose classname is different, missing or repeated contributes no
\* face, and an input without exactly one world branch makes the load fail.
C21_WorldThenDetailEntities ==
    map_load # NoLoad =>
        /\ map_load.status = "ok" <=> map_doc.worlds = 1
        /\ map_load.status = "ok" =>
              /\ [j \in 1..Len(map_load.vertices) |-> map_load.vertices[j].position[3]]
                    = SourceFaces
              /\ map_doc.entity \in {"func_door", "noclass", "twoclass"} => VerticesOf(0) = {}

\* a loaded file whose func_detail entity stands before the world branch:
\* the world face comes first in the mesh
C21_Witness ==
    /\ map_doc.worlds = 1 /\ map_doc.entity_first /\ map_doc.entity = "func_detail"
    /\ Len(map_doc.sides) = 1 /\ Retained(map_doc.sides[1])
    /\ map_load.status = "ok"
    /\ [j \in 1..Len(map_load.vertices) |-> map_load.vertices[j].position[3]]
          = <<1, 1, 1, 1, 0, 0, 0>>

\* ---------------------------------------------------------------------
\* Index buffer of a rebuilt curve

TriangleCount(spline) == Len(spline.indices) \div 3
SidesOf(triangle, sides) == {triangle[c] % sides : c \in 1..3}

\* the triangles of the mesh whose corners lie on two rings
ConnectingTriangles(spline) ==
    {t \in 1..TriangleCount(spline) :
        Cardinality(RingsOf(TriangleAt(spline.indices, t), spline.data.sides)) = 2}

\* C22: after a rebuild of a curve with at least 1 side the index count is
\* a multiple of 3 and every index is smaller than the number of vertices;
\* every connecting triangle lies on the rings r, r + 1 and the sides
\* i, (i + 1) % sides, so that the triangles of the last side end on side 0
\* of the same two rings.
C22_IndicesInRangeAndWrap ==
    \A c \in Curves :
        (~splines[c].reconstruct_mesh /\ splines[c].data.sides >= 1) =>
            LET spline == splines[c]
                k == spline.data.sides
                rings == Len(spline.vertices) \div k
            IN /\ Len(spline.indices) % 3 = 0
               /\ \A x \in 1..Len(spline.indices) :
                     spline.indices[x] >= 0 /\ spline.indices[x] < Len(spline.vertices)
               /\ \A t \in ConnectingTriangles(spline) :
                     LET triangle == TriangleAt(spline.indices, t)
                     IN /\ \E r \in 0..(rings - 2) : RingsOf(triangle, k) = {r, r + 1}
                        /\ \E i \in 0..(k - 1) : SidesOf(triangle, k) = {i, (i + 1) % k}
               /\ LET connecting == {TriangleAt(spline.indices, t) :
                                         t \in ConnectingTriangles(spline)}
                  IN \A r \in 0..(rings - 2) :
                        /\ <<r * k, r * k + k - 1, (r + 1) * k>> \in connecting
                        /\ <<r * k + k - 1, (r + 1) * k + k - 1, (r + 1) * k>> \in connecting

\* a rebuilt curve of 2 points and 4 sides: the triangles of side 3 of the
\* first two rings end on the vertices 0 and 4, side 0 of those rings
C22_Witness ==
    \E c \in Curves :
        /\ FullCurve(splines[c])
        /\ splines[c].data.sides = 4
        /\ \E t, u \in ConnectingTriangles(splines[c]) :
              /\ TriangleAt(splines[c].indices, t) = <<0, 3, 4>>
              /\ TriangleAt(splines[c].indices, u) = <<3, 7, 4>>

\* ---------------------------------------------------------------------
\* An editing session with a state file on disk: key input, point edits,
\* loads of the file and exports

\* the file an earlier session saved from the list this one starts with
FileOf(list) ==
    [written |-> TRUE, text |-> save_state(restore_state(list)), data |-> list]

InitEdit ==
    /\ map_doc = NoDoc
    /\ vmf_string = <<>>
    /\ parser = ParserStart
    /\ query = NoQuery
    /\ map_load = NoLoad
    /\ \E list \in HeldLists :
          /\ splines = restore_state(list)
          /\ state_file = FileOf(list)
    /\ selected_spline = 0
    /\ new_spline_requested = FALSE
    /\ menu_selection = "Controls"
    /\ load_state_future = "none"
    /\ phase = "idle"
    /\ ops = 0
    /\ panic = NoPanic
    /\ save_state_future = NoFuture
    /\ export_spline_future = NoFuture
    /\ snap_value = 64

NextEdit ==
    \/ KeySpace \/ KeyArrowLeft \/ KeyArrowRight
    \/ WorldUpdate
    \/ GuiUpdate
    \/ RenderNoInput \/ RenderSelectMenu \/ RenderLoadSplines
    \/ RenderInsertPoint \/ RenderRemovePoint
    \/ RenderExport

SpecEdit == InitEdit /\ [][NextEdit]_vars

\* the Export button was clicked in this step: construct_zip returned the
\* archive, or panicked
ExportRan == ExportedNow \/ (panic = NoPanic /\ panic' = ExportPanic)

\* C23: for every triangle of every curve at the time of an export, the
\* indices floor(t) and min(ceil(t), count - 1) of the colour lookup lie
\* inside the curve's control-point list, and the export does not panic.
C23_ColorLookupInRange ==
    [][ExportRan =>
          /\ panic' = NoPanic
          /\ \A c \in Curves :
                \A k \in 1..TriangleCount(splines[c]) : LookupsInRange(splines[c], k)]_vars

\* an archive was made of the 4-sided curve "path" after one of its two
\* points was removed and the next frame rebuilt its mesh: the two end caps
\* of one ring
C23_Witness ==
    /\ export_spline_future # NoFuture
    /\ Len(splines) = 1
    /\ splines[1].data.name = "path" /\ splines[1].data.sides = 4
    /\ Len(splines[1].data.points) = 1
    /\ ~splines[1].reconstruct_mesh
    /\ TriangleCount(splines[1]) = 4
    /\ \E k \in 1..Len(export_spline_future.zip) :
          /\ export_spline_future.zip[k].kind = "smd"
          /\ Len(export_spline_future.zip[k].triangles) = 4

\* the three vertices of triangle k of a mesh
Corners(spline, k) ==
    [c \in 1..3 |-> spline.vertices[spline.indices[3 * (k - 1) + c] + 1]]

CornersWith(corners, t_value) == {c \in 1..3 : corners[c].t_value = t_value}

\* C24: for every triangle the tube generator emits, end caps and both
\* triangles of each connecting quad, the t-value the exporter picks for
\* the colour is the t-value of at least two of the triangle's vertices.
C24_PickedIsMajorityT ==
    \A c \in Curves :
        ~splines[c].reconstruct_mesh =>
            \A k \in 1..TriangleCount(splines[c]) :
                LET corners == Corners(splines[c], k)
                    picked == full_t(corners[1], corners[2], corners[3])
                IN Cardinality(CornersWith(corners, picked)) >= 2

\* an archive was made of a curve whose mesh has a cap triangle, a quad
\* triangle with its first two vertices on one ring and a quad triangle
\* whose first vertex is alone on its ring, where the exporter takes the
\* value of the second vertex
C24_Witness ==
    /\ export_spline_future # NoFuture
    /\ \E c \in Curves :
          /\ ~splines[c].data.bundle /\ ~splines[c].reconstruct_mesh
          /\ \E k1, k2, k3 \in 1..TriangleCount(splines[c]) :
                LET a == Corners(splines[c], k1)
                    b == Corners(splines[c], k2)
                    d == Corners(splines[c], k3)
                IN /\ CornersWith(a, a[1].t_value) = {1, 2, 3}
                   /\ CornersWith(b, b[1].t_value) = {1, 2}
                   /\ CornersWith(d, d[1].t_value) = {1}
                   /\ CornersWith(d, full_t(d[1], d[2], d[3])) = {2, 3}

\* ---------------------------------------------------------------------
\* Key presses

\* World::input handled a Space press in this step: the one operation of
\* the input phase that counts as an edit
SpacePressed == phase = "idle" /\ ops' = ops + 1

\* World::input handled an arrow key that moved the cursor
ArrowPressed == phase = "idle" /\ phase' = "idle" /\ ops' = ops /\ splines' # splines

\* C25: a Space press with the cursor at the number of points appends a
\* point, which takes tangent magnitude and colour from the previous last
\* point when there is one; otherwise it replaces the selected point, which
\* keeps its tangent magnitude and colour, and the number of points stays.
\* In both cases the cursor advances by one and the curve is dirty. An
\* arrow key moves the cursor and leaves the dirty flag as it was.
C25_SpaceAppendsOrReplaces ==
    [][LET old == splines[selected_spline + 1]
           new == splines'[selected_spline + 1]
           sel == old.selected_point
           n == Len(old.data.points)
           was == old.data.points
           now == new.data.points
       IN /\ SpacePressed =>
               /\ new.selected_point = sel + 1
               /\ new.reconstruct_mesh
               /\ IF sel = n
                  THEN /\ Len(now) = n + 1
                       /\ SubSeq(now, 1, n) = was
                       /\ n > 0 => /\ now[n + 1].tangent_magnitude = was[n].tangent_magnitude
                                   /\ now[n + 1].color = was[n].color
                  ELSE /\ Len(now) = n
                       /\ \A j \in (1..n) \ {sel + 1} : now[j] = was[j]
                       /\ now[sel + 1].tangent_magnitude = was[sel + 1].tangent_magnitude
                       /\ now[sel + 1].color = was[sel + 1].color
                       /\ \E camera \in Cameras :
                             /\ now[sel + 1].position = camera.position
                             /\ now[sel + 1].pitch = camera.pitch
                             /\ now[sel + 1].yaw = camera.yaw
          /\ ArrowPressed =>
               /\ new.selected_point \in {sel - 1, sel + 1}
               /\ new.reconstruct_mesh = old.reconstruct_mesh
               /\ now = was]_vars

\* the second point of the loaded curve "path" was replaced by a point at
\* the camera, which kept the colour <<128, 0, 0, 128>> and the magnitude 256
C25_Witness ==
    /\ Len(splines) = 1
    /\ splines[1].data.name = "path" /\ splines[1].data.radius = 8
    /\ Len(splines[1].data.points) = 2
    /\ splines[1].selected_point = 2
    /\ splines[1].reconstruct_mesh
    /\ ops = 1
    /\ \E camera \in Cameras : splines[1].data.points[2].position = camera.position
    /\ splines[1].data.points[2].color = <<128, 0, 0, 128>>
    /\ splines[1].data.points[2].tangent_magnitude = 256

\* ---------------------------------------------------------------------
\* The selection cursor of a curve

CursorInRange(list) ==
    \A c \in 1..Len(list) :
        list[c].selected_point >= 0 /\ list[c].selected_point <= Len(list[c].data.points)

\* Gui::render changed the number of points of curve c: the "+" or the "-"
\* button of the point properties
PointButton(c) ==
    /\ phase = "gui_updated"
    /\ Len(splines') = Len(splines)
    /\ Len(splines'[c].data.points) # Len(splines[c].data.points)

\* C26: after any sequence of Space, ArrowLeft, ArrowRight, insert, remove
\* and restore operations the cursor of every curve is at least 0 and at
\* most the number of its points, and insert and remove are applied only
\* to a curve whose cursor is below the number of its points.
C26_CursorWithinPoints ==
    [][/\ CursorInRange(splines)
       /\ CursorInRange(splines')
       /\ \A c \in Curves :
             PointButton(c) =>
                /\ c = selected_spline + 1
                /\ splines[c].selected_point < Len(splines[c].data.points)]_vars

\* the second point of the loaded two-point curve "path" was removed: the
\* cursor, which selected it, is now at the number of points
C26_Witness ==
    /\ Len(splines) = 1
    /\ splines[1].data.name = "path" /\ splines[1].data.radius = 8
    /\ Len(splines[1].data.points) = 1
    /\ splines[1].data.points[1].position[1] = 0 - 72
    /\ splines[1].selected_point = 1
    /\ splines[1].reconstruct_mesh
    /\ ops = 1

\* ---------------------------------------------------------------------
\* The selected curve

\* C27: whenever the curve list is non-empty the selected-curve index is
\* smaller than the number of curves, and neither World::input nor the
\* property panel indexes the list out of range.
C27_SelectedCurveInRange ==
    /\ Len(splines) > 0 => selected_spline < Len(splines)
    /\ panic # IndexPanic

\* ---------------------------------------------------------------------
\* The curves an export reads

\* C28: whenever an export runs no curve has its dirty flag set, and the
\* mesh of every curve is the one a rebuild makes from the curve's current
\* control points and parameters.
C28_ExportReadsRebuiltCurves ==
    [][ExportRan =>
          \A c \in Curves :
             /\ ~splines[c].reconstruct_mesh
             /\ splines[c].vertices = BuiltVertices(splines[c].data)
             /\ splines[c].indices = BuiltIndices(splines[c].data)]_vars

\* ---------------------------------------------------------------------
\* The order of the updates in World::update

\* World::update ran in this step: to its end, or into the panic of a
\* curve's update
WorldUpdateRan ==
    /\ phase = "idle"
    /\ phase' = "world_updated" \/ (panic = NoPanic /\ panic' # NoPanic /\ panic'.spline > 0)

\* the list the two loops of World::update go through
Pushed == IF new_spline_requested THEN Append(splines, Spline_new) ELSE splines

\* C29: in every World::update all curves flagged as bundle are updated
\* before any curve that is not, and every curve of the list is updated
\* exactly once.
C29_BundlesFirstAllOnce ==
    [][WorldUpdateRan =>
          LET order == UpdateOrder(Pushed)
          IN /\ Len(order) = Len(Pushed)
             /\ \A i \in 1..Len(Pushed) :
                   Cardinality({p \in 1..Len(order) : order[p] = i}) = 1
             /\ \A p, q \in 1..Len(order) :
                   (p < q /\ Pushed[order[q]].data.bundle) => Pushed[order[p]].data.bundle
             /\ panic' = NoPanic
             /\ \A i \in 1..Len(Pushed) : splines'[i] = Spline_update(Pushed[i])]_vars

\* ---------------------------------------------------------------------
\* Faces the visibility filter removes

\* a face whose vertex list is absent, has a non-numeric vertex or has
\* fewer than 3 vertices
Broken(side) == side.vform # "ok" \/ side.n < 3

\* C30: a face removed by the visibility filter never makes the load fail:
\* the load fails exactly when a retained face is broken, whatever the
\* vertex lists of the tool-material and material-less faces are, and a
\* load that succeeds holds no vertex of a removed face.
C30_ExcludedFaceNeverFails ==
    map_load # NoLoad =>
        /\ map_load.status = "error" <=> \E f \in DocFaceSet : Retained(f.side) /\ Broken(f.side)
        /\ map_load.status = "ok" =>
              \A f \in DocFaceSet : ~Retained(f.side) => VerticesOf(f.z) = {}

\* a tool-material face without a vertex list and a material-less face
\* with a non-numeric vertex, in a load that succeeded
C30_Witness ==
    /\ map_load # NoLoad /\ map_load.status = "ok"
    /\ Len(map_doc.sides) = 2
    /\ HasToolMaterial(map_doc.sides[1]) /\ map_doc.sides[1].vform = "absent"
    /\ map_doc.sides[2].mform = "missing" /\ map_doc.sides[2].vform = "bad"
    /\ map_load.vertices = <<>>

=============================================================================
